---- MODULE Spec2Model ----
(***************************************************************************)
(* State-machine model of the runnai synchronisation orchestrator          *)
(* (src/src/tools/strava.ts), its persistent store                         *)
(* (src/src/utils/activities-db.ts), the run classifier, the HR-zone       *)
(* reference and the best-effort tool (src/src/tools/best-efforts.ts).     *)
(*                                                                         *)
(* Numbers that are floating point in the source are modelled exactly:     *)
(* a pace is a rational <<n, d>> in lowest terms and every comparison is   *)
(* done by cross-multiplication.  Paces are kept in seconds per metre: the *)
(* source's factor 1000 (seconds per kilometre) is on both sides of every  *)
(* comparison it makes.  Math.round is round half up on the non-negative   *)
(* rationals it is applied to.                                             *)
(***************************************************************************)
EXTENDS Integers, Sequences, FiniteSets, TLC

(***************************************************************************)
(* Bounds of the model                                                     *)
(***************************************************************************)
MaxActs == 3

NULL == "null"

Ids == 1..MaxActs

(***************************************************************************)
(* Generic helpers                                                         *)
(***************************************************************************)
Min2(a, b) == IF a <= b THEN a ELSE b

Abs(x) == IF x < 0 THEN -x ELSE x

\* Math.round(n/d) for n >= 0, d > 0
RoundDiv(n, d) == (2 * n + d) \div (2 * d)

RECURSIVE SumSeq(_)
SumSeq(s) == IF s = <<>> THEN 0 ELSE Head(s) + SumSeq(Tail(s))

Take(s, n) == SubSeq(s, 1, Min2(n, Len(s)))

SeqToSet(s) == {s[i] : i \in 1..Len(s)}

RECURSIVE Gcd(_, _)
Gcd(a, b) == IF b = 0 THEN a ELSE Gcd(b, a % b)

\* the rational n/d (n >= 0, d > 0) in lowest terms
Reduce(n, d, g) == <<n \div g, d \div g>>

Rat(n, d) == Reduce(n, d, Gcd(n, d))

\* rationals
RatLT(a, b) == a[1] * b[2] < b[1] * a[2]
RatLE(a, b) == a[1] * b[2] <= b[1] * a[2]

\* a < b * (pn / pd)
RatLTScaled(a, b, pn, pd) == a[1] * b[2] * pd < b[1] * pn * a[2]
RatLEScaled(a, b, pn, pd) == a[1] * b[2] * pd <= b[1] * pn * a[2]

\* Array.prototype.sort with a numeric comparator (stable) on rationals
RECURSIVE InsertRat(_, _)
InsertRat(x, s) ==
  IF s = <<>> THEN <<x>>
  ELSE IF RatLT(x, Head(s)) THEN <<x>> \o s
  ELSE <<Head(s)>> \o InsertRat(x, Tail(s))

RECURSIVE SortRat(_)
SortRat(s) ==
  IF s = <<>> THEN <<>>
  ELSE InsertRat(s[Len(s)], SortRat(SubSeq(s, 1, Len(s) - 1)))

(***************************************************************************)
(* Run classifier (run-classifier.ts, stored with activities-db.ts)        *)
(***************************************************************************)
Detail(f, c, a, b, l) == [fmt |-> f, count |-> c, a |-> a, b |-> b, label |-> l]

\* run_type_detail = null
NoDetail == Detail("null", 0, 0, 0, "")

Result(t, d, c) == [run_type |-> t, run_type_detail |-> d, confidence |-> c]

\* getHrZone: 1..5 from the thresholds
getHrZone(hr, zones) ==
  IF hr < zones.lt1 THEN (IF 100 * hr < 88 * zones.lt1 THEN 1 ELSE 2)
  ELSE IF hr < zones.lt2 THEN 3
  ELSE IF 100 * hr < 97 * zones.max_hr THEN 4
  ELSE 5

\* paceSecKm of the activity
ActPace(activity, easyPaceRef) ==
  IF activity.distance > 0
  THEN Rat(activity.moving_time, activity.distance)
  ELSE easyPaceRef

\* hrZone: 0 stands for null (no HR data)
ActHrZone(activity, hrZones) ==
  IF activity.average_heartrate # 0
  THEN getHrZone(activity.average_heartrate, hrZones) ELSE 0

\* the decision of classifyByPaceAndHr on paceSecKm, hrZone and distance
PaceAndHrResult(pace, hrZone, far, easyPaceRef) ==
  IF RatLTScaled(easyPaceRef, pace, 100, 105)
  THEN (IF hrZone # 0 /\ hrZone <= 2
        THEN Result("recovery", NoDetail, "medium")
        ELSE Result("easy", NoDetail, "low"))
  ELSE IF RatLEScaled(easyPaceRef, pace, 100, 95)
  THEN (IF far THEN Result("long_run", NoDetail, "medium")
        ELSE Result("easy", NoDetail, "medium"))
  ELSE IF hrZone >= 4 THEN Result("threshold", NoDetail, "medium")
  ELSE IF hrZone = 3 THEN Result("tempo", NoDetail, "medium")
  ELSE IF far THEN Result("long_run", NoDetail, "low")
  ELSE Result("unknown", NoDetail, "low")

classifyByPaceAndHr(activity, hrZones, easyPaceRef) ==
  PaceAndHrResult(ActPace(activity, easyPaceRef), ActHrZone(activity, hrZones),
                  activity.distance >= 15000, easyPaceRef)

classifyAutoLapRun(activity, hrZones, easyPaceRef) ==
  classifyByPaceAndHr(activity, hrZones, easyPaceRef)

detectAutoLapsInclusive(laps) ==
  IF Len(laps) <= 2 THEN TRUE
  ELSE \/ \A i \in 2..(Len(laps) - 1) : Abs(laps[i].distance - 1000) <= 120
       \/ \A i \in 2..(Len(laps) - 1) : Abs(laps[i].distance - 1609) <= 150

detectAutoLaps(laps) ==
  IF Len(laps) <= 2 THEN TRUE
  ELSE LET inner == 2..(Len(laps) - 1)
       IN \/ \A i \in inner : Abs(laps[i].distance - 1000) < 120
          \/ \A i \in inner : Abs(laps[i].distance - 1609) < 150

LapPace(l) == IF l.distance > 0 THEN Rat(l.moving_time, l.distance) ELSE <<0, 1>>

LapPaces(laps) == [i \in 1..Len(laps) |-> LapPace(laps[i])]

\* the share of laps at most 1% slower than the lap before, over the core
ProgressionOver(core) ==
  10 * Cardinality({i \in 2..Len(core) : RatLTScaled(core[i], core[i - 1], 101, 100)})
    >= 8 * (Len(core) - 1)

isProgressionOverAllLaps(paces) ==
  IF Len(paces) < 3 THEN FALSE ELSE ProgressionOver(paces)

isProgression(paces) ==
  IF Len(paces) < 3 THEN FALSE
  ELSE ProgressionOver(IF Len(paces) > 4 THEN SubSeq(paces, 2, Len(paces) - 1) ELSE paces)

\* the mean of two rationals
RatMean(a, b) == Rat(a[1] * b[2] + b[1] * a[2], 2 * a[2] * b[2])

MedianOfSorted(sorted, mid) ==
  IF Len(sorted) % 2 = 0 THEN RatMean(sorted[mid], sorted[mid + 1]) ELSE sorted[mid + 1]

MedianOf(sorted) == MedianOfSorted(sorted, Len(sorted) \div 2)

getMedian(values) == MedianOf(SortRat(values))

\* indices (1-based) of the work laps: pace <= 0.92 * median
WorkLapsBelow(paces, med) == {i \in 1..Len(paces) : RatLEScaled(paces[i], med, 92, 100)}

WorkLapsOf(paces) == WorkLapsBelow(paces, getMedian(paces))

WorkLaps(laps) == WorkLapsOf(LapPaces(laps))

RestLaps(laps, workLaps) == (1..Len(laps)) \ workLaps

isAlternatingPattern(workLaps, restLaps) ==
  IF Cardinality(workLaps) < 2 THEN FALSE
  ELSE LET n == Cardinality(workLaps \cup restLaps)
           alternations == Cardinality({i \in 2..n : (i \in workLaps) # ((i - 1) \in workLaps)})
       IN alternations >= Cardinality(workLaps)

RECURSIVE SumOver(_, _)
SumOver(S, f) ==
  IF S = {} THEN 0
  ELSE LET x == CHOOSE y \in S : TRUE IN f[x] + SumOver(S \ {x}, f)

\* coefficientOfVariation(values) < 0.15, values = distances of the laps in S
\* cv < 0.15 from the count, the sum and the sum of squares:
\* 400 * (n * s2 - s1^2) < 9 * s1^2
CvBelow(n, s1, s2) ==
  IF n < 2 \/ s1 = 0 THEN TRUE
  ELSE n * s2 - s1 * s1 <= (9 * s1 * s1 - 1) \div 400

LapDistances(laps) == [i \in 1..Len(laps) |-> laps[i].distance]

LapTimes(laps) == [i \in 1..Len(laps) |-> laps[i].moving_time]

\* coefficientOfVariation(values) < 0.15, values = distances of the laps in S
CvBelowThreshold(S, laps) ==
  CvBelow(Cardinality(S), SumOver(S, LapDistances(laps)),
          SumOver(S, [i \in 1..Len(laps) |-> laps[i].distance * laps[i].distance]))

\* |s / count - target| < tol
Near(s, count, target, tol) == Abs(s - target * count) < tol * count

IntervalDetail(count, s) ==
  IF Near(s, count, 1000, 150) THEN Detail("intervals", count, 0, 0, "1km")
  ELSE IF Near(s, count, 800, 100) THEN Detail("intervals", count, 0, 0, "800m")
  ELSE IF Near(s, count, 400, 80) THEN Detail("intervals", count, 0, 0, "400m")
  ELSE IF Near(s, count, 1600, 200) \/ Near(s, count, 1609, 200)
  THEN Detail("intervals", count, 0, 0, "1mi")
  ELSE IF Near(s, count, 2000, 200) THEN Detail("intervals", count, 0, 0, "2km")
  ELSE IF Near(s, count, 1200, 150) THEN Detail("intervals", count, 0, 0, "1200m")
  ELSE Detail("intervals", count, RoundDiv(s, 100 * count) * 100, 0, "m")

formatIntervalDetailCountingLaps(workLaps, laps) ==
  IntervalDetail(Len(laps), SumOver(workLaps, LapDistances(laps)))

formatIntervalDetail(workLaps, laps) ==
  IntervalDetail(Cardinality(workLaps), SumOver(workLaps, LapDistances(laps)))

FartlekDetail(workCount, workSum, workMin, restMin) ==
  IF workMin > 0 /\ restMin > 0 THEN Detail("fartlek", workCount, workMin, restMin, "min")
  ELSE IF workMin > 0 THEN Detail("fartlek", workCount, workMin, 0, "min")
  ELSE Detail("fartlek", workCount, RoundDiv(workSum, 10 * workCount) * 10, 0, "s")

FartlekOf(workCount, restCount, workSum, restSum) ==
  FartlekDetail(workCount, workSum, RoundDiv(workSum, 60 * workCount),
                IF restCount = 0 THEN 0 ELSE RoundDiv(restSum, 60 * restCount))

formatFartlekDetail(workLaps, restLaps, laps) ==
  FartlekOf(Cardinality(workLaps), Cardinality(restLaps),
            SumOver(workLaps, LapTimes(laps)), SumOver(restLaps, LapTimes(laps)))

\* the scan of detectTempoBlock: state <<fastStart, fastEnd>>, 0 stands for -1
RECURSIVE TempoScan(_, _, _, _, _)
TempoScan(paces, fastThreshold, i, fastStart, fastEnd) ==
  IF i > Len(paces) THEN <<fastStart, fastEnd>>
  ELSE IF RatLT(paces[i], fastThreshold)
       THEN TempoScan(paces, fastThreshold, i + 1,
                      IF fastStart = 0 THEN i ELSE fastStart, i)
       ELSE IF fastStart # 0 /\ i > fastEnd + 1 THEN <<fastStart, fastEnd>>
       ELSE TempoScan(paces, fastThreshold, i + 1, fastStart, fastEnd)

\* the block <<fastStart, fastEnd>> accepted by detectTempoBlock, <<0, 0>> if none
\* the checks of detectTempoBlock on the scanned block
AcceptBlock(blk, n) ==
  IF n < 3 \/ blk[1] = 0 THEN <<0, 0>>
  ELSE IF blk[2] - blk[1] + 1 < 2 THEN <<0, 0>>
  ELSE IF blk[1] = 1 /\ blk[2] = n THEN <<0, 0>>
  ELSE blk

TempoBlock(laps, easyPaceRef) ==
  AcceptBlock(TempoScan(LapPaces(laps), Rat(easyPaceRef[1] * 92, easyPaceRef[2] * 100),
                        1, 0, 0),
              Len(laps))

\* detectTempoBlock: the result, or Result(NULL, ..) when it returns null
\* `${km}km @ ${min}:${sec}/km` with avgPace = tempoTime / tempoDistance * 1000
TempoDetail(tempoDistance, tempoTime, paceMin) ==
  Detail("tempo", RoundDiv(tempoDistance, 100), paceMin,
         RoundDiv(tempoTime * 1000 - paceMin * 60 * tempoDistance, tempoDistance),
         "km @ /km")

TempoOver(tempoDistance, tempoTime) ==
  IF tempoDistance = 0 THEN Result("tempo", Detail("tempo", 0, 0, 0, "NaN"), "high")
  ELSE Result("tempo",
              TempoDetail(tempoDistance, tempoTime, (tempoTime * 1000) \div (tempoDistance * 60)),
              "high")

TempoOfBlock(blk, laps) ==
  IF blk = <<0, 0>> THEN Result(NULL, NoDetail, "low")
  ELSE TempoOver(SumOver(blk[1]..blk[2], LapDistances(laps)),
                 SumOver(blk[1]..blk[2], LapTimes(laps)))

\* detectTempoBlock: the result, or Result(NULL, ..) when it returns null
detectTempoBlock(laps, easyPaceRef) == TempoOfBlock(TempoBlock(laps, easyPaceRef), laps)

\* a tempo block wins over the pace/HR heuristics when there are < 2 work laps
TempoOrPaceAndHr(tempoResult, activity, hrZones, easyPaceRef) ==
  IF tempoResult.run_type # NULL THEN tempoResult
  ELSE classifyByPaceAndHr(activity, hrZones, easyPaceRef)

StructuredByWorkLaps(activity, laps, hrZones, easyPaceRef, workLaps, restLaps) ==
  IF Cardinality(workLaps) < 2
  THEN TempoOrPaceAndHr(detectTempoBlock(laps, easyPaceRef), activity, hrZones, easyPaceRef)
  ELSE IF ~isAlternatingPattern(workLaps, restLaps)
  THEN classifyByPaceAndHr(activity, hrZones, easyPaceRef)
  ELSE IF CvBelowThreshold(workLaps, laps)
  THEN Result("intervals", formatIntervalDetail(workLaps, laps), "high")
  ELSE Result("fartlek", formatFartlekDetail(workLaps, restLaps, laps), "high")

StructuredByLaps(activity, laps, hrZones, easyPaceRef, workLaps) ==
  StructuredByWorkLaps(activity, laps, hrZones, easyPaceRef, workLaps,
                       RestLaps(laps, workLaps))

classifyStructuredLapRun(activity, laps, hrZones, easyPaceRef) ==
  IF Len(laps) < 3 THEN classifyByPaceAndHr(activity, hrZones, easyPaceRef)
  ELSE IF isProgression(LapPaces(laps)) THEN Result("progression", NoDetail, "high")
  ELSE StructuredByLaps(activity, laps, hrZones, easyPaceRef, WorkLaps(laps))

classifyRunRaceWithoutLaps(activity, laps, hrZones, easyPaceRef) ==
  IF Len(laps) = 0
  THEN (IF activity.workout_type = 1 THEN Result("race", NoDetail, "high")
        ELSE classifyByPaceAndHr(activity, hrZones, easyPaceRef))
  ELSE IF detectAutoLaps(laps) THEN classifyAutoLapRun(activity, hrZones, easyPaceRef)
  ELSE classifyStructuredLapRun(activity, laps, hrZones, easyPaceRef)

classifyRun(activity, laps, hrZones, easyPaceRef) ==
  IF activity.workout_type = 1 THEN Result("race", NoDetail, "high")
  ELSE IF Len(laps) = 0 THEN classifyByPaceAndHr(activity, hrZones, easyPaceRef)
  ELSE IF detectAutoLaps(laps) THEN classifyAutoLapRun(activity, hrZones, easyPaceRef)
  ELSE classifyStructuredLapRun(activity, laps, hrZones, easyPaceRef)

(***************************************************************************)
(* The provider (Strava): activity catalogue                               *)
(***************************************************************************)
Hour == 3600

\* athlete's possible UTC offsets in seconds (start_date_local - start_date)
TzOffsets == {0 - Hour, 0, Hour}

\* what kind of activity the provider holds under each identity
Kind(id) ==
  IF id = 3 THEN "treadmill" ELSE IF id = 4 THEN "ride" ELSE "run"

\* start instant (epoch seconds, UTC) of the activity
StartUtc(id) == 10 * Hour + id * 1800

Lap(d, t) == [distance |-> d, moving_time |-> t]

\* laps in the provider's detail response
ProviderLaps(id) ==
  IF Kind(id) # "run" THEN <<>>
  ELSE IF id = 1 THEN <<Lap(2000, 720), Lap(1000, 240), Lap(300, 120),
                        Lap(1000, 240), Lap(1500, 540)>>
  ELSE IF id = 2 THEN <<>>
  ELSE <<Lap(1000, 360), Lap(1000, 355), Lap(1000, 365)>>

Effort(eid, name, elapsed, dist) ==
  [id |-> eid, name |-> name, elapsed_time |-> elapsed, moving_time |-> elapsed,
   distance |-> dist]

\* best efforts in the provider's detail response
ProviderEfforts(id) ==
  IF Kind(id) # "run" THEN <<>>
  ELSE IF id = 1 THEN <<Effort(11, "1K", 235, 1000), Effort(12, "50K", 9000, 50000)>>
  ELSE IF id = 2 THEN <<Effort(21, "5K", 1200, 5000)>>
  ELSE <<>>

\* the summary (StravaActivity) the list request returns; 0 stands for an
\* absent optional field
Summary(id, tz) ==
  [id |-> id, name |-> id,
   type |-> IF Kind(id) = "ride" THEN "Ride" ELSE "Run",
   sport_type |-> IF Kind(id) = "ride" THEN "Ride" ELSE "Run",
   trainer |-> Kind(id) = "treadmill",
   start_date |-> StartUtc(id),
   start_date_local |-> StartUtc(id) + tz,
   distance |-> IF id = 1 THEN 5740 ELSE IF id = 2 THEN 5000 ELSE IF id = 4 THEN 30000 ELSE 6000,
   moving_time |-> IF id = 1 THEN 1860 ELSE IF id = 2 THEN 1200 ELSE IF id = 4 THEN 3600 ELSE 2160,
   average_speed |-> 3,
   average_heartrate |-> IF id = 1 THEN 160 ELSE IF id = 2 THEN 178 ELSE 0,
   max_heartrate |-> IF id = 1 THEN 182 ELSE IF id = 2 THEN 188 ELSE 0,
   workout_type |-> IF id = 2 THEN 1 ELSE 0]

STRAVA_DISTANCE_NAMES == {"400m", "1/2 mile", "1K", "1 mile", "2 mile", "5K", "10K",
                          "15K", "10 mile", "20K", "Half-Marathon", "30K", "Marathon"}

\* STRAVA_DISTANCE_NAME_MAP[name] for the names the model uses
DistanceDbName(name) ==
  IF name = "1/2 mile" THEN "800M" ELSE IF name = "1 mile" THEN "1MILE"
  ELSE IF name = "Half-Marathon" THEN "HALF" ELSE IF name = "Marathon" THEN "MARATHON"
  ELSE name

ConvertKept(activityId, keep) ==
  [i \in 1..Len(keep) |->
     [strava_effort_id |-> keep[i].id, activity_id |-> activityId,
      distance_name |-> DistanceDbName(keep[i].name),
      distance_meters |-> keep[i].distance,
      elapsed_time |-> keep[i].elapsed_time]]

\* convertStravaBestEfforts: efforts with an unrecognised name are dropped
convertStravaBestEfforts(activityId, efforts) ==
  ConvertKept(activityId, SelectSeq(efforts, LAMBDA e : e.name \in STRAVA_DISTANCE_NAMES))

(***************************************************************************)
(* State                                                                   *)
(***************************************************************************)
VARIABLES
  provider,            \* identities of the activities the provider holds
  tzOffset,            \* the athlete's UTC offset
  activities,          \* table activities: stored identity -> row
  activity_laps,       \* table activity_laps: identity -> laps by lap_index
  strava_best_efforts, \* table strava_best_efforts: set of rows
  hrZonesFile,         \* data/athlete/hr-zones.json, or NoFile
  pc,                  \* where the running sync is suspended
  sync,                \* the running sync's local variables
  result,              \* what the last finished sync returned
  reqLog,              \* history: the provider requests of the current sync
  pre,                 \* history: the store when the current sync started
  best_efforts,        \* table best_efforts (computed from streams): set of rows
  streams,             \* the provider's answer to a stream request, by identity
  input,               \* arguments of the last call of the function applied
  output,              \* what that call returned
  tokensFile,          \* data/strava/tokens.json: the tokens, or NoTokens
  clock,               \* Date.now() / 1000
  refreshPromise,      \* the module variable refreshPromise: a refresh, or 0 for null
  refreshes,           \* the invocations of refreshAccessToken, by identity
  calls                \* the invocations of getAccessToken, by caller

\* what the synchronisation reads and writes
syncVars == <<provider, tzOffset, activity_laps, hrZonesFile, pc, sync, result, reqLog, pre>>

\* what only the best-effort tool reads and writes
effortVars == <<best_efforts, streams, input, output>>

\* what only the credential code reads and writes
tokenVars == <<tokensFile, clock, refreshPromise, refreshes, calls>>

vars == <<provider, tzOffset, activities, activity_laps, strava_best_efforts,
          hrZonesFile, pc, sync, result, reqLog, pre,
          best_efforts, streams, input, output,
          tokensFile, clock, refreshPromise, refreshes, calls>>

\* at most MaxCallers concurrent calls of getAccessToken; the clock advances
\* at most MaxTicks times
MaxCallers == 2

MaxTicks == 2

Callers == 1..MaxCallers

TOKEN_EXPIRY_BUFFER_SECONDS == 300

\* the clock advances in steps of five minutes
Tick == 300

\* expires_in of the tokens the provider issues
EXPIRES_IN == 900

\* loadTokens returned null
NoTokens == [present |-> FALSE, access_token |-> 0, expires_at |-> 0]

Tokens(access, expires) == [present |-> TRUE, access_token |-> access, expires_at |-> expires]

\* a refresh that has not settled has no outcome yet
NoOutcome == [status |-> "none", access_token |-> 0, error |-> ""]

Fulfilled(tokens) == [status |-> "token", access_token |-> tokens.access_token, error |-> ""]

Rejected(error) == [status |-> "error", access_token |-> 0, error |-> error]

UnusedRefresh == [state |-> "unused", newTokens |-> NoTokens, outcome |-> NoOutcome]

\* a call of getAccessToken: its position, what its loadTokens returned, the
\* promise it found and the promise it awaits; inBuffer records whether the
\* stored tokens needed a refresh when the call was made
IdleCall == [pc |-> "idle", inBuffer |-> FALSE, loaded |-> NoTokens, found |-> 0,
             awaited |-> 0, outcome |-> NoOutcome]

\* nobody is asking for an access token; the stored tokens are valid
TokensIdle ==
  /\ tokensFile = Tokens(0, 2 * EXPIRES_IN)
  /\ clock = 0
  /\ refreshPromise = 0
  /\ refreshes = [id \in Callers |-> UnusedRefresh]
  /\ calls = [c \in Callers |-> IdleCall]

\* fetchActivityStream returned null
NoStream == [ok |-> FALSE, time |-> <<>>, distance |-> <<>>]

\* no best-effort call has been made
NoCall == [op |-> "none"]

NoFile == [source |-> "none", lt1 |-> 0, lt2 |-> 0, max_hr |-> 0, confirmed |-> "undefined"]

NoZones == [lt1 |-> 0, lt2 |-> 0, max_hr |-> 0]

StoredIds == DOMAIN activities

(***************************************************************************)
(* Persistent store (activities-db.ts)                                     *)
(***************************************************************************)
\* the row INSERT OR REPLACE writes: the listed columns from the summary, every
\* other column (detail_fetched, run_type, run_type_detail) at its DEFAULT
NewRow(a) ==
  [name |-> a.name, type |-> a.type, sport_type |-> a.sport_type,
   trainer |-> IF a.trainer THEN 1 ELSE 0,
   start_date |-> a.start_date, start_date_local |-> a.start_date_local,
   distance |-> a.distance, moving_time |-> a.moving_time,
   average_speed |-> a.average_speed,
   average_heartrate |-> a.average_heartrate, max_heartrate |-> a.max_heartrate,
   workout_type |-> a.workout_type,
   detail_fetched |-> 0, run_type |-> NULL, run_type_detail |-> NoDetail]

\* upsertActivities: REPLACE deletes the row with the same id and inserts NewRow
upsertActivities(acts, listed) ==
  LET ids == {listed[i].id : i \in 1..Len(listed)}
      last(id) == CHOOSE i \in 1..Len(listed) :
                    /\ listed[i].id = id
                    /\ \A j \in 1..Len(listed) : listed[j].id = id => j <= i
  IN [id \in (DOMAIN acts) \cup ids |->
        IF id \in ids THEN NewRow(listed[last(id)]) ELSE acts[id]]

\* getLatestActivityDate: MAX(start_date_local), 0 stands for null
getLatestActivityDate(acts) ==
  IF DOMAIN acts = {} THEN 0
  ELSE CHOOSE d \in {acts[i].start_date_local : i \in DOMAIN acts} :
         \A i \in DOMAIN acts : acts[i].start_date_local <= d

getExistingActivityIds(acts) == DOMAIN acts

markActivityDetailFetchedAll(acts, activityId) ==
  [id \in DOMAIN acts |-> [acts[id] EXCEPT !.detail_fetched = 1]]

markActivityDetailFetched(acts, activityId) ==
  [id \in DOMAIN acts |->
     IF id = activityId THEN [acts[id] EXCEPT !.detail_fetched = 1] ELSE acts[id]]

setRunType(acts, activityId, runType, runTypeDetail) ==
  [id \in DOMAIN acts |->
     IF id = activityId
     THEN [acts[id] EXCEPT !.run_type = runType, !.run_type_detail = runTypeDetail]
     ELSE acts[id]]

\* ORDER BY start_date_local DESC over a set of stored identities
RECURSIVE OrderByStartDesc(_, _)
OrderByStartDesc(acts, S) ==
  IF S = {} THEN <<>>
  ELSE LET m == CHOOSE x \in S : \A y \in S :
                  \/ acts[y].start_date_local < acts[x].start_date_local
                  \/ acts[y].start_date_local = acts[x].start_date_local /\ y <= x
       IN <<m>> \o OrderByStartDesc(acts, S \ {m})

OutdoorRun(row) == row.type = "Run" /\ row.trainer = 0

getActivitiesWithoutDetail(acts, limit) ==
  Take(OrderByStartDesc(acts, {id \in DOMAIN acts :
         OutdoorRun(acts[id]) /\ acts[id].detail_fetched = 0}), limit)

getUnclassifiedActivitiesNone(acts, limit) == <<>>

getUnclassifiedActivities(acts, limit) ==
  Take(OrderByStartDesc(acts, {id \in DOMAIN acts :
         OutdoorRun(acts[id]) /\ acts[id].detail_fetched = 1 /\ acts[id].run_type = NULL}),
       limit)

\* upsertStravaBestEfforts: INSERT OR REPLACE under UNIQUE(strava_effort_id)
\* and UNIQUE(activity_id, distance_name)
RECURSIVE upsertStravaBestEfforts(_, _)
upsertStravaBestEfforts(table, records) ==
  IF records = <<>> THEN table
  ELSE LET r == Head(records)
           kept == {x \in table :
                      /\ x.strava_effort_id # r.strava_effort_id
                      /\ ~(x.activity_id = r.activity_id /\ x.distance_name = r.distance_name)}
       IN upsertStravaBestEfforts(kept \cup {r}, Tail(records))

\* upsertActivityLaps: INSERT OR REPLACE under UNIQUE(activity_id, lap_index);
\* the response carries lap_index 0..n-1 in order
upsertActivityLaps(table, activityId, laps) ==
  [table EXCEPT ![activityId] =
     [i \in 1..(IF Len(laps) > Len(@) THEN Len(laps) ELSE Len(@)) |->
        IF i <= Len(laps) THEN laps[i] ELSE @[i]]]

getActivityLaps(table, activityId) == table[activityId]

(***************************************************************************)
(* HR zone reference (hr-zones.ts)                                         *)
(***************************************************************************)
RECURSIVE SortedInts(_)
SortedInts(bag) ==
  \* bag: set of <<value, id>>, ascending by value
  IF bag = {} THEN <<>>
  ELSE LET m == CHOOSE x \in bag : \A y \in bag :
                  x[1] < y[1] \/ (x[1] = y[1] /\ x[2] <= y[2])
       IN <<m[1]>> \o SortedInts(bag \ {m})

ZonesFromMax(maxHr) ==
  [source |-> "estimated", lt1 |-> RoundDiv(maxHr * 82, 100),
   lt2 |-> RoundDiv(maxHr * 89, 100), max_hr |-> maxHr, confirmed |-> FALSE]

\* rows: max_heartrate of the outdoor runs that have one, ascending
ZonesFromRows(rows) ==
  IF Len(rows) = 0
  THEN [source |-> "estimated", lt1 |-> 148, lt2 |-> 170, max_hr |-> 190, confirmed |-> FALSE]
  ELSE ZonesFromMax(rows[((Len(rows) * 95) \div 100) + 1])

estimateHrZones(acts) ==
  ZonesFromRows(SortedInts({<<acts[id].max_heartrate, id>> : id \in
      {i \in DOMAIN acts : OutdoorRun(acts[i]) /\ acts[i].max_heartrate # 0}}))

\* the JSON file holds confirmed as true, false or not at all ("undefined")
ZonesToFile(z) == [z EXCEPT !.confirmed = IF z.confirmed THEN "true" ELSE "false"]

\* loadHrZones: the zones it returns (a missing `confirmed` reads as true)
loadHrZones(file, acts) ==
  IF file.source = "none" THEN estimateHrZones(acts)
  ELSE [file EXCEPT !.confirmed = (file.confirmed # "false")]

\* loadHrZones: the file it leaves behind (a fresh estimate is persisted)
loadHrZonesFile(file, acts) ==
  IF file.source = "none" THEN ZonesToFile(estimateHrZones(acts)) ELSE file

\* median of the slower 60% of the sorted paces
EasyPaceOfSlower(slower) == slower[(Len(slower) \div 2) + 1]

EasyPaceOfSorted(paces) ==
  EasyPaceOfSlower(SubSeq(paces, ((Len(paces) * 4) \div 10) + 1, Len(paces)))

EasyPaceOfRecent(acts, ids) ==
  IF Len(ids) = 0 THEN Rat(360, 1000)
  ELSE EasyPaceOfSorted(SortRat([i \in 1..Len(ids) |->
         Rat(acts[ids[i]].moving_time, acts[ids[i]].distance)]))

computeEasyPaceRef(acts) ==
  EasyPaceOfRecent(acts, Take(OrderByStartDesc(acts, {id \in DOMAIN acts :
      /\ OutdoorRun(acts[id])
      /\ acts[id].distance >= 5000 /\ acts[id].distance <= 15000
      /\ acts[id].average_speed > 0}), 100))

(***************************************************************************)
(* Synchronisation orchestrator (stravaSyncTool)                           *)
(***************************************************************************)
\* batch size of the classification backlog
UNCLASSIFIED_LIMIT == 50

\* backfill_best_efforts ?? 100
DEFAULT_BACKFILL_LIMIT == 100

\* values of the backfill_best_efforts argument (absent = default)
BackfillLimits == {1, DEFAULT_BACKFILL_LIMIT}

\* now - 180 days, the window of the first sync: it covers every activity
FIRST_SYNC_AFTER == 0

\* now - days, the window of a full sync for the values of `days` the caller
\* passes: one that covers every activity, one that starts after activity 1
Cutoffs == {0, StartUtc(1) + 900}

\* outcomes of a detail request: success, HTTP 429 (RATE_LIMITED is thrown),
\* a credential failure (getAccessToken throws NO_TOKENS, TOKEN_EXPIRED or
\* NO_REFRESH_TOKEN, or the provider answers HTTP 401).  Every other thrown
\* error takes the same path through the catch as the credential failure.
DetailResponses == {"ok", "rate_limited", "auth"}

\* outcomes of the credential fetch and list request: success, or a
\* credential failure (any other failure throws to the same handler)
ListResponses == {"ok", "auth"}

NoResult == [status |-> "none", zonesNeedConfirmation |-> FALSE, estimatedZones |-> NoZones,
             classifiedCount |-> 0, patternsRegenerated |-> FALSE,
             detailFetched |-> 0, backfillCount |-> 0]

IdleSync == [isIncremental |-> FALSE, existingIds |-> {}, after |-> 0,
             listed |-> <<>>, newRuns |-> <<>>, i |-> 1, toBackfill |-> <<>>, j |-> 1,
             detailFetched |-> 0, backfillCount |-> 0]

EmptyStore == [activities |-> <<>>, activity_laps |-> [id \in Ids |-> <<>>],
               strava_best_efforts |-> {}]

Store == [activities |-> activities, activity_laps |-> activity_laps,
          strava_best_efforts |-> strava_best_efforts]

\* the provider's answer to the list request: every activity that started
\* after the `after` instant, oldest first
RECURSIVE OrderByStartAsc(_)
OrderByStartAsc(S) ==
  IF S = {} THEN <<>>
  ELSE LET m == CHOOSE x \in S : \A y \in S : StartUtc(x) <= StartUtc(y)
       IN <<m>> \o OrderByStartAsc(S \ {m})

ListOf(ids) == [k \in 1..Len(ids) |-> Summary(ids[k], tzOffset)]

ListAnswer(after) == ListOf(OrderByStartAsc({id \in provider : StartUtc(id) > after}))

IsOutdoorRun(a) == (a.type = "Run" \/ a.sport_type = "Run") /\ ~a.trainer

\* lines 60-80: the fetch window, up to the first await
SyncStart(incremental, cutoff) ==
  /\ pc = "idle"
  /\ incremental => cutoff = FIRST_SYNC_AFTER
  /\ \E latestDate \in {getLatestActivityDate(activities)} :
       \E inc \in {incremental /\ latestDate # 0} :
         sync' = [IdleSync EXCEPT
                    !.isIncremental = inc,
                    !.existingIds = IF inc THEN getExistingActivityIds(activities) ELSE {},
                    !.after = IF inc THEN latestDate - 1
                              ELSE IF incremental THEN FIRST_SYNC_AFTER ELSE cutoff]
  /\ pc' = "list"
  /\ result' = NoResult
  /\ reqLog' = <<>>
  /\ pre' = Store
  /\ UNCHANGED <<provider, tzOffset, activities, activity_laps,
                 strava_best_efforts, hrZonesFile>>
  /\ UNCHANGED <<effortVars, tokenVars>>

\* where the sync suspends next once the new-run loop is over; limit is the
\* call's backfill_best_efforts argument, read here for the first time
AfterNewRuns(acts, s, limit) ==
  \E tb \in {getActivitiesWithoutDetail(acts, limit)} :
    /\ pc' = IF tb = <<>> THEN "classify" ELSE "backfill"
    /\ sync' = [s EXCEPT !.toBackfill = tb, !.j = 1]

\* lines 104-109: new-run selection
NewRunsOf(listed, existingIds) ==
  SelectSeq(SelectSeq(listed, LAMBDA a : a.id \notin existingIds), IsOutdoorRun)

\* lines 80-109: credential, list request, summary upsert, new-run selection
SyncList(resp, limit) ==
  /\ pc = "list"
  /\ reqLog' = Append(reqLog, [loop |-> "list", id |-> 0, resp |-> resp])
  /\ IF resp = "ok"
     THEN \E listed \in {ListAnswer(sync.after)} :
          \E newRuns \in {NewRunsOf(listed, sync.existingIds)} :
          \E acts1 \in {upsertActivities(activities, listed)} :
          \E s1 \in {[sync EXCEPT !.listed = listed, !.newRuns = newRuns, !.i = 1]} :
            /\ newRuns = <<>> \/ limit = DEFAULT_BACKFILL_LIMIT
            /\ activities' = acts1
            /\ IF newRuns # <<>>
               THEN pc' = "newRuns" /\ sync' = s1
               ELSE AfterNewRuns(acts1, s1, limit)
            /\ result' = result
     ELSE /\ limit = DEFAULT_BACKFILL_LIMIT
          /\ pc' = "done"
          /\ result' = [NoResult EXCEPT !.status = "error"]
          /\ UNCHANGED <<activities, sync>>
  /\ UNCHANGED <<provider, tzOffset, activity_laps, strava_best_efforts,
                 hrZonesFile, pre>>
  /\ UNCHANGED <<effortVars, tokenVars>>

\* what a successful detail response persists (lines 115-135 and 151-171)
EffortsOf(table, id, efforts) ==
  IF Len(efforts) > 0
  THEN upsertStravaBestEfforts(table, convertStravaBestEfforts(id, efforts))
  ELSE table

DetailEfforts(table, id) == EffortsOf(table, id, ProviderEfforts(id))

LapsOfNotStored(table, id, laps) == table

LapsOf(table, id, laps) ==
  IF Len(laps) > 0 THEN upsertActivityLaps(table, id, laps) ELSE table

DetailLaps(table, id) == LapsOf(table, id, ProviderLaps(id))

LoopContinuesAlways(resp) == TRUE

\* does the loop go on after this response?  RATE_LIMITED breaks; any other
\* error is swallowed by the catch and the loop goes on
LoopContinues(resp) == resp # "rate_limited"

\* lines 112-141: one iteration of the new-run detail loop
DetailNew(resp, limit) ==
  /\ pc = "newRuns"
  /\ \E id \in {sync.newRuns[sync.i].id} :
     \E acts1 \in {IF resp = "ok" THEN markActivityDetailFetched(activities, id)
                   ELSE activities} :
     \E s1 \in {[sync EXCEPT !.i = @ + 1,
                             !.detailFetched = IF resp = "ok" THEN @ + 1 ELSE @]} :
     \E goesOn \in {LoopContinues(resp) /\ sync.i < Len(sync.newRuns)} :
       /\ ~goesOn \/ limit = DEFAULT_BACKFILL_LIMIT
       /\ reqLog' = Append(reqLog, [loop |-> "new", id |-> id, resp |-> resp])
       /\ activities' = acts1
       /\ strava_best_efforts' = IF resp = "ok" THEN DetailEfforts(strava_best_efforts, id)
                                 ELSE strava_best_efforts
       /\ activity_laps' = IF resp = "ok" THEN DetailLaps(activity_laps, id)
                           ELSE activity_laps
       /\ IF goesOn
          THEN pc' = "newRuns" /\ sync' = s1
          ELSE AfterNewRuns(acts1, s1, limit)
  /\ UNCHANGED <<provider, tzOffset, hrZonesFile, result, pre>>
  /\ UNCHANGED <<effortVars, tokenVars>>

\* lines 148-177: one iteration of the historical backfill loop
DetailBackfill(resp) ==
  /\ pc = "backfill"
  /\ \E id \in {sync.toBackfill[sync.j]} :
       /\ reqLog' = Append(reqLog, [loop |-> "backfill", id |-> id, resp |-> resp])
       /\ activities' = IF resp = "ok" THEN markActivityDetailFetched(activities, id)
                        ELSE activities
       /\ strava_best_efforts' = IF resp = "ok" THEN DetailEfforts(strava_best_efforts, id)
                                 ELSE strava_best_efforts
       /\ activity_laps' = IF resp = "ok" THEN DetailLaps(activity_laps, id)
                           ELSE activity_laps
       /\ sync' = [sync EXCEPT !.j = @ + 1,
                               !.backfillCount = IF resp = "ok" THEN @ + 1 ELSE @]
       /\ pc' = IF LoopContinues(resp) /\ sync.j < Len(sync.toBackfill)
                THEN "backfill" ELSE "classify"
  /\ UNCHANGED <<provider, tzOffset, hrZonesFile, result, pre>>
  /\ UNCHANGED <<effortVars, tokenVars>>

ActivityData(id, r) ==
  [id |-> id, distance |-> r.distance, moving_time |-> r.moving_time,
   average_speed |-> r.average_speed, average_heartrate |-> r.average_heartrate,
   workout_type |-> r.workout_type]

\* setRunType with the classifier's result
SetResult(acts, id, r) == setRunType(acts, id, r.run_type, r.run_type_detail)

\* one iteration of a classification loop
ClassifyOne(acts, laps, a, zones, easyPaceRef) ==
  SetResult(acts, a.id, classifyRun(a, getActivityLaps(laps, a.id), zones, easyPaceRef))

\* a classification loop: classifyRun and setRunType for each item in turn
RECURSIVE ClassifyEach(_, _, _, _, _)
ClassifyEach(acts, laps, items, zones, easyPaceRef) ==
  IF items = <<>> THEN acts
  ELSE ClassifyEach(ClassifyOne(acts, laps, Head(items), zones, easyPaceRef),
                    laps, Tail(items), zones, easyPaceRef)

\* lines 192-199: the loop over the new runs, classified from the list response
ClassifyNewRuns(acts, laps, newRuns, zones, easyPaceRef) ==
  ClassifyEach(acts, laps,
    [k \in 1..Len(newRuns) |-> ActivityData(newRuns[k].id, newRuns[k])],
    zones, easyPaceRef)

\* lines 202-215: the loop over the backlog, classified from the stored rows
ClassifyBacklog(acts, laps, unclassified, zones, easyPaceRef) ==
  ClassifyEach(acts, laps,
    [k \in 1..Len(unclassified) |-> ActivityData(unclassified[k], acts[unclassified[k]])],
    zones, easyPaceRef)

\* the store after the backlog loop and classifiedCount
ClassifyRest(acts, laps, unclassified, zones, easyPaceRef, newCount) ==
  [acts |-> ClassifyBacklog(acts, laps, unclassified, zones, easyPaceRef),
   classifiedCount |-> newCount + Len(unclassified)]

ClassifyAfterNew(acts, laps, zones, easyPaceRef, newCount) ==
  ClassifyRest(acts, laps, getUnclassifiedActivities(acts, UNCLASSIFIED_LIMIT),
               zones, easyPaceRef, newCount)

ClassifyWithRef(acts, laps, newRuns, zones, easyPaceRef) ==
  ClassifyAfterNew(ClassifyNewRuns(acts, laps, newRuns, zones, easyPaceRef),
                   laps, zones, easyPaceRef, Len(newRuns))

\* lines 192-217: the store after both classification loops, and classifiedCount
ClassifyStep(acts, laps, newRuns, zones) ==
  ClassifyWithRef(acts, laps, newRuns, zones, computeEasyPaceRef(acts))

zonesNeedConfirmationAlways(zones) == FALSE

\* line 189: classification is deferred while the zones are unconfirmed
zonesNeedConfirmation(zones) == ~zones.confirmed

\* lines 180-302: classification and the returned result
Classify ==
  /\ pc = "classify"
  /\ \E zones \in {loadHrZones(hrZonesFile, activities)} :
     \E base \in {[NoResult EXCEPT !.status = "ok",
                                   !.detailFetched = sync.detailFetched,
                                   !.backfillCount = sync.backfillCount]} :
       /\ hrZonesFile' = loadHrZonesFile(hrZonesFile, activities)
       /\ IF zonesNeedConfirmation(zones)
          THEN /\ activities' = activities
               /\ result' = [base EXCEPT !.zonesNeedConfirmation = TRUE,
                               !.estimatedZones = [lt1 |-> zones.lt1, lt2 |-> zones.lt2,
                                                   max_hr |-> zones.max_hr]]
          ELSE \E out \in {ClassifyStep(activities, activity_laps, sync.newRuns, zones)} :
               /\ activities' = out.acts
               /\ result' = [base EXCEPT !.classifiedCount = out.classifiedCount,
                                         !.patternsRegenerated = TRUE]
  /\ pc' = "done"
  /\ UNCHANGED <<provider, tzOffset, activity_laps, strava_best_efforts,
                 sync, reqLog, pre>>
  /\ UNCHANGED <<effortVars, tokenVars>>

\* line 302 / 304: the result is handed to the caller and the call is over
SyncReturn ==
  /\ pc = "done"
  /\ pc' = "idle"
  /\ sync' = IdleSync
  /\ result' = NoResult
  /\ reqLog' = <<>>
  /\ pre' = EmptyStore
  /\ UNCHANGED <<provider, tzOffset, activities, activity_laps,
                 strava_best_efforts, hrZonesFile>>
  /\ UNCHANGED <<effortVars, tokenVars>>

(***************************************************************************)
(* Environment: the provider gains an activity, the athlete                *)
(* confirms HR zones (set_hr_zones tool).  The sync reads the provider's    *)
(* list once, so a change during a sync is the same as one after it.       *)
(***************************************************************************)
ProviderAdd(id) ==
  /\ pc = "idle"
  /\ id \notin provider
  /\ provider' = provider \cup {id}
  /\ UNCHANGED <<pc, tzOffset, activities, activity_laps, strava_best_efforts,
                 hrZonesFile, sync, result, reqLog, pre>>
  /\ UNCHANGED <<effortVars, tokenVars>>

\* setHrZonesTool: always saves confirmed = true
SetHrZones(lt1, lt2, max_hr, source) ==
  /\ pc = "idle"
  /\ hrZonesFile' = ZonesToFile([source |-> source, lt1 |-> lt1, lt2 |-> lt2,
                                  max_hr |-> max_hr, confirmed |-> TRUE])
  /\ hrZonesFile' # hrZonesFile
  /\ UNCHANGED <<pc, provider, tzOffset, activities, activity_laps,
                 strava_best_efforts, sync, result, reqLog, pre>>
  /\ UNCHANGED <<effortVars, tokenVars>>

Init ==
  /\ provider = {}
  /\ tzOffset \in TzOffsets
  /\ activities = <<>>
  /\ activity_laps = [id \in Ids |-> <<>>]
  /\ strava_best_efforts = {}
  /\ hrZonesFile = NoFile
  /\ pc = "idle"
  /\ sync = IdleSync
  /\ result = NoResult
  /\ reqLog = <<>>
  /\ pre = EmptyStore
  /\ best_efforts = {}
  /\ streams = [id \in Ids |-> NoStream]
  /\ input = NoCall
  /\ output = NoCall
  /\ TokensIdle

Next ==
  \/ \E incremental \in BOOLEAN, cutoff \in Cutoffs : SyncStart(incremental, cutoff)
  \/ \E resp \in ListResponses, limit \in BackfillLimits : SyncList(resp, limit)
  \/ \E resp \in DetailResponses, limit \in BackfillLimits : DetailNew(resp, limit)
  \/ \E resp \in DetailResponses : DetailBackfill(resp)
  \/ Classify
  \/ \E id \in Ids : ProviderAdd(id)
  \/ SyncReturn
  \/ SetHrZones(152, 171, 190, "lactate_test")

Spec == Init /\ [][Next]_vars

\* a sync that was started runs on to its return (every await of the handler
\* resolves), and incremental syncs keep being requested.  The classification
\* step is enabled exactly when pc = "classify" and leaves that position, so
\* its weak fairness is that the sync is not suspended there for ever.
SyncFairness ==
  /\ WF_vars(SyncStart(TRUE, FIRST_SYNC_AFTER))
  /\ WF_vars(\E resp \in ListResponses, limit \in BackfillLimits : SyncList(resp, limit))
  /\ WF_vars(\E resp \in DetailResponses, limit \in BackfillLimits : DetailNew(resp, limit))
  /\ WF_vars(\E resp \in DetailResponses : DetailBackfill(resp))
  /\ []<>(pc # "classify")
  /\ WF_vars(SyncReturn)

\* a fresh installation whose provider already holds two outdoor runs
InitLive ==
  /\ provider = {1, 2}
  /\ tzOffset \in TzOffsets
  /\ activities = <<>>
  /\ activity_laps = [id \in Ids |-> <<>>]
  /\ strava_best_efforts = {}
  /\ hrZonesFile = NoFile
  /\ pc = "idle"
  /\ sync = IdleSync
  /\ result = NoResult
  /\ reqLog = <<>>
  /\ pre = EmptyStore
  /\ best_efforts = {}
  /\ streams = [id \in Ids |-> NoStream]
  /\ input = NoCall
  /\ output = NoCall
  /\ TokensIdle

\* incremental syncs one after the other, the athlete may confirm HR zones
NextLive ==
  \/ SyncStart(TRUE, FIRST_SYNC_AFTER)
  \/ \E resp \in ListResponses, limit \in BackfillLimits : SyncList(resp, limit)
  \/ \E resp \in DetailResponses, limit \in BackfillLimits : DetailNew(resp, limit)
  \/ \E resp \in DetailResponses : DetailBackfill(resp)
  \/ Classify
  \/ SyncReturn
  \/ SetHrZones(152, 171, 190, "lactate_test")

SpecLive == InitLive /\ [][NextLive]_vars /\ SyncFairness

(***************************************************************************)
(* Properties of the synchronisation orchestrator                          *)
(***************************************************************************)
\* the requests of the current sync made by one loop, in order
LoopLog(loop) == SelectSeq(reqLog, LAMBDA e : e.loop = loop)

RateLimitedIn(loop) == \E i \in 1..Len(reqLog) :
  reqLog[i].loop = loop /\ reqLog[i].resp = "rate_limited"

\* what a successful detail response for id persisted is in the store
DetailPersisted(id) ==
  /\ id \in DOMAIN activities /\ activities[id].detail_fetched = 1
  /\ \A k \in 1..Len(ProviderLaps(id)) :
       k <= Len(activity_laps[id]) /\ activity_laps[id][k] = ProviderLaps(id)[k]
  /\ SeqToSet(convertStravaBestEfforts(id, ProviderEfforts(id))) \subseteq strava_best_efforts

\* the store a sync started from is settled: no outdoor run misses detail and
\* no detailed outdoor run is unclassified
Settled(acts) ==
  /\ DOMAIN acts # {}
  /\ \A id \in DOMAIN acts : OutdoorRun(acts[id]) =>
       acts[id].detail_fetched = 1 /\ acts[id].run_type # NULL

ListedIds == {sync.listed[k].id : k \in 1..Len(sync.listed)}

\* C1 (as claimed): an incremental sync that starts from a settled store, with
\* confirmed HR zones, and for which the provider lists no activity that is
\* not already stored, ends with every activity row (provider fields,
\* run_type, run_type_detail, detail_fetched), every lap and every best-effort
\* record equal to what they were when the sync started, whatever the
\* provider answered to the detail requests
C1_SyncIdempotent ==
  (/\ pc = "done" /\ result.status = "ok"
   /\ sync.isIncremental
   /\ hrZonesFile.confirmed = "true"
   /\ Settled(pre.activities)
   /\ ListedIds \subseteq DOMAIN pre.activities)
  => Store = pre

\* C2 (as claimed): the summary upsert step leaves run_type and
\* run_type_detail of every activity already in the store as they were
C2_UpsertKeepsRunType ==
  [][pc = "list" =>
       \A id \in DOMAIN activities :
         /\ activities'[id].run_type = activities[id].run_type
         /\ activities'[id].run_type_detail = activities[id].run_type_detail]_vars

\* the first k answers of the backfill loop were successes and answer k+1
\* was the rate-limit signal
BackfillOkThenLimited(k) ==
  LET B == LoopLog("backfill")
  IN /\ k + 1 <= Len(B)
     /\ \A m \in 1..k : B[m].resp = "ok"
     /\ B[k + 1].resp = "rate_limited"

\* C3: when the backfill loop has ended after k successful detail requests
\* and a rate-limit signal on request k+1 of the N selected activities,
\* exactly the first k have detail_fetched = 1, the other N-k have
\* detail_fetched = 0 and all of them are returned by the next
\* activities-missing-detail query of sufficient limit
C3_ResumableBackfill ==
  \A k \in 0..MaxActs :
    (pc = "classify" /\ BackfillOkThenLimited(k)) =>
      LET N == Len(sync.toBackfill)
          missing == SeqToSet(getActivitiesWithoutDetail(activities, Cardinality(DOMAIN activities)))
      IN /\ \A m \in 1..k : activities[sync.toBackfill[m]].detail_fetched = 1
         /\ \A m \in (k + 1)..N :
              /\ activities[sync.toBackfill[m]].detail_fetched = 0
              /\ sync.toBackfill[m] \in missing

C3_Witness ==
  /\ pc = "classify"
  /\ BackfillOkThenLimited(1)
  /\ Len(sync.toBackfill) >= 2

\* C4: a rate-limit signal on a detail request is a partial stop: the loop
\* that got it makes no further detail request, what the successful requests
\* before it persisted is still in the store, and the sync returns a
\* non-error result
C4_RateLimitPartialStop ==
  /\ \A i, j \in 1..Len(reqLog) :
       (i < j /\ reqLog[i].resp = "rate_limited") =>
         /\ reqLog[j].loop # reqLog[i].loop
         /\ \A h \in 1..i : reqLog[h].resp = "ok" /\ reqLog[h].loop # "list"
                              => DetailPersisted(reqLog[h].id)
  /\ \A i \in 1..Len(reqLog) :
       reqLog[i].resp = "rate_limited" =>
         /\ \A h \in 1..i : reqLog[h].resp = "ok" /\ reqLog[h].loop # "list"
                              => DetailPersisted(reqLog[h].id)
         /\ pc = "done" => result.status = "ok"

C4_Witness ==
  /\ pc = "done" /\ result.status = "ok"
  /\ Len(sync.newRuns) >= 2
  /\ [k \in 1..Len(LoopLog("new")) |-> LoopLog("new")[k].resp] = <<"rate_limited">>
  /\ [k \in 1..Len(LoopLog("backfill")) |-> LoopLog("backfill")[k].resp] = <<"ok", "rate_limited">>
  /\ DetailPersisted(LoopLog("backfill")[1].id)

\* C5 (as claimed): after a credential failure on any provider request the
\* sync makes no further provider request and returns an error result
C5_AuthFailureIsFatal ==
  /\ \A i, j \in 1..Len(reqLog) : i < j => reqLog[i].resp # "auth"
  /\ (pc = "done" /\ \E i \in 1..Len(reqLog) : reqLog[i].resp = "auth")
       => result.status = "error"

\* C6: a classification step that loads unconfirmed HR zones writes no
\* run_type or run_type_detail (race-flagged activities included), does not
\* regenerate the pattern summary and reports the estimated lt1, lt2 and
\* max_hr; and an activity's run_type becomes non-null only in a
\* classification step that loaded confirmed zones
C6_UnconfirmedZonesDefer ==
  [][LET zones == loadHrZones(hrZonesFile, activities)
     IN /\ (pc = "classify" /\ ~zones.confirmed) =>
             /\ \A id \in DOMAIN activities :
                  /\ activities'[id].run_type = activities[id].run_type
                  /\ activities'[id].run_type_detail = activities[id].run_type_detail
             /\ ~result'.patternsRegenerated
             /\ result'.classifiedCount = 0
             /\ result'.zonesNeedConfirmation
             /\ result'.estimatedZones =
                  [lt1 |-> zones.lt1, lt2 |-> zones.lt2, max_hr |-> zones.max_hr]
        /\ (\E id \in DOMAIN activities' :
              /\ activities'[id].run_type # NULL
              /\ id \in DOMAIN activities => activities[id].run_type = NULL) =>
             (pc = "classify" /\ zones.confirmed)]_vars

C6_Witness ==
  /\ pc = "done"
  /\ result.zonesNeedConfirmation
  /\ result.estimatedZones = [lt1 |-> 154, lt2 |-> 167, max_hr |-> 188]
  /\ \E id \in DOMAIN activities :
       /\ activities[id].workout_type = 1 /\ activities[id].detail_fetched = 1
       /\ activities[id].run_type = NULL

(***************************************************************************)
(* Best-effort tool (best-efforts.ts)                                      *)
(***************************************************************************)
DISTANCE_TOLERANCE == 50

\* MIN_REALISTIC_PACE_PER_KM[meters] || 3 * 60
MIN_REALISTIC_PACE_PER_KM(meters) == IF meters = 1000 THEN 150 ELSE 180

DISTANCE_CONFIG(dist) ==
  IF dist = "1k" THEN [dbName |-> "1K", meters |-> 1000]
  ELSE IF dist = "5k" THEN [dbName |-> "5K", meters |-> 5000]
  ELSE IF dist = "10k" THEN [dbName |-> "10K", meters |-> 10000]
  ELSE IF dist = "half" THEN [dbName |-> "HALF", meters |-> 21097]
  ELSE [dbName |-> "MARATHON", meters |-> 42195]

\* bestTime = Infinity
NoBest == [infinite |-> TRUE, time |-> 0, distance |-> 0, startIdx |-> 0, endIdx |-> 0]

\* findFastestSegment returned null
NoSegment == [found |-> FALSE, timeSeconds |-> 0, distanceMeters |-> 0,
              startIndex |-> 0, endIndex |-> 0]

\* lines 57-62: the while loop that advances startIdx (indices from 1)
RECURSIVE AdvanceStart(_, _, _, _)
AdvanceStart(distance, targetDistance, startIdx, endIdx) ==
  IF /\ startIdx < endIdx
     /\ distance[endIdx] - distance[startIdx] > targetDistance + DISTANCE_TOLERANCE
  THEN AdvanceStart(distance, targetDistance, startIdx + 1, endIdx)
  ELSE startIdx

\* line 70: normalizedTime < bestTime, both being time / distance * targetDistance
\* with the same positive targetDistance
NormalizedBelow(segmentTime, segmentDistance, best) ==
  best.infinite \/ segmentTime * best.distance < best.time * segmentDistance

\* lines 64-76: the window startIdx..endIdx against the best so far
Consider(stream, targetDistance, startIdx, endIdx, best) ==
  IF /\ stream.distance[endIdx] - stream.distance[startIdx]
          >= targetDistance - DISTANCE_TOLERANCE
     /\ NormalizedBelow(stream.time[endIdx] - stream.time[startIdx],
                        stream.distance[endIdx] - stream.distance[startIdx], best)
  THEN [infinite |-> FALSE,
        time |-> stream.time[endIdx] - stream.time[startIdx],
        distance |-> stream.distance[endIdx] - stream.distance[startIdx],
        startIdx |-> startIdx, endIdx |-> endIdx]
  ELSE best

\* lines 56-77: the for loop over endIdx
RECURSIVE SegmentScan(_, _, _, _, _)
RECURSIVE ScanFrom(_, _, _, _, _)
SegmentScan(stream, targetDistance, endIdx, startIdx, best) ==
  IF endIdx > Len(stream.distance) THEN best
  ELSE ScanFrom(stream, targetDistance, endIdx,
                AdvanceStart(stream.distance, targetDistance, startIdx, endIdx), best)

ScanFrom(stream, targetDistance, endIdx, startIdx, best) ==
  SegmentScan(stream, targetDistance, endIdx + 1, startIdx,
              Consider(stream, targetDistance, startIdx, endIdx, best))

\* lines 79-86: the returned record (indices from 0, as the code returns them)
SegmentOf(best, targetDistance) ==
  IF best.infinite THEN NoSegment
  ELSE [found |-> TRUE,
        timeSeconds |-> RoundDiv(best.time * targetDistance, best.distance),
        distanceMeters |-> best.distance,
        startIndex |-> best.startIdx - 1, endIndex |-> best.endIdx - 1]

findFastestSegmentWithoutLengthTest(stream, targetDistance) ==
  SegmentOf(SegmentScan(stream, targetDistance, 1, 1, NoBest), targetDistance)

findFastestSegment(stream, targetDistance) ==
  IF \/ Len(stream.distance) = 0
     \/ stream.distance[Len(stream.distance)] < targetDistance
  THEN NoSegment
  ELSE SegmentOf(SegmentScan(stream, targetDistance, 1, 1, NoBest), targetDistance)

\* a BestEffortResult (the formatted fields follow from these)
EffortResult(activityId, seconds, meters, source) ==
  [activityId |-> activityId, segmentTimeSeconds |-> seconds,
   segmentDistanceMeters |-> meters, source |-> source]

\* ORDER BY elapsed_time ASC over a set of rows (one row per activity; rows
\* with equal elapsed_time come in activity order)
RECURSIVE OrderByElapsed(_)
OrderByElapsed(rows) ==
  IF rows = {} THEN <<>>
  ELSE LET r == CHOOSE x \in rows : \A y \in rows :
                  \/ x.elapsed_time < y.elapsed_time
                  \/ x.elapsed_time = y.elapsed_time /\ x.activity_id <= y.activity_id
       IN <<r>> \o OrderByElapsed(rows \ {r})

\* getStravaBestEfforts(distanceName): JOIN activities, ORDER BY elapsed_time ASC
getStravaBestEfforts(table, acts, distanceName) ==
  OrderByElapsed({r \in table : r.distance_name = distanceName /\ r.activity_id \in DOMAIN acts})

StravaResults(rows) ==
  [k \in 1..Len(rows) |->
     EffortResult(rows[k].activity_id, rows[k].elapsed_time, rows[k].distance_meters, "strava")]

\* queryStravaEfforts: rows.slice(0, limit).map(..)
queryStravaEfforts(table, acts, config, limit) ==
  StravaResults(Take(getStravaBestEfforts(table, acts, config.dbName), limit))

ComputedResults(rows) ==
  [k \in 1..Len(rows) |->
     EffortResult(rows[k].activity_id, rows[k].elapsed_time, rows[k].distance_meters, "computed")]

\* getComputedFromDb: every computed row of the distance, fastest first
getComputedFromDb(table, acts, config) ==
  ComputedResults(OrderByElapsed({r \in table :
      r.distance_name = config.dbName /\ r.activity_id \in DOMAIN acts}))

\* upsertBestEffort: INSERT OR REPLACE under UNIQUE(activity_id, distance_name)
upsertBestEffort(table, record) ==
  {r \in table : ~(r.activity_id = record.activity_id
                   /\ r.distance_name = record.distance_name)} \cup {record}

\* Array.prototype.sort by segmentTimeSeconds (stable)
RECURSIVE InsertEffort(_, _)
InsertEffort(x, sorted) ==
  IF sorted = <<>> THEN <<x>>
  ELSE IF x.segmentTimeSeconds < sorted[Len(sorted)].segmentTimeSeconds
  THEN Append(InsertEffort(x, SubSeq(sorted, 1, Len(sorted) - 1)), sorted[Len(sorted)])
  ELSE Append(sorted, x)

RECURSIVE SortEfforts(_)
SortEfforts(efforts) ==
  IF efforts = <<>> THEN <<>>
  ELSE InsertEffort(efforts[Len(efforts)], SortEfforts(SubSeq(efforts, 1, Len(efforts) - 1)))

\* line 155: pacePerKm < minPace, pacePerKm = timeSeconds / distanceMeters * 1000
TooFast(segment, meters) ==
  segment.timeSeconds * 1000 < MIN_REALISTIC_PACE_PER_KM(meters) * segment.distanceMeters

\* lines 157-178: the row written and the entry pushed for an accepted segment
Accept(acc, id, config, segment) ==
  [table |-> upsertBestEffort(acc.table,
               [activity_id |-> id, distance_name |-> config.dbName,
                distance_meters |-> config.meters, elapsed_time |-> segment.timeSeconds,
                pace_per_km |-> Rat(segment.timeSeconds * 1000, segment.distanceMeters),
                start_index |-> segment.startIndex, end_index |-> segment.endIndex]),
   efforts |-> Append(acc.efforts,
                 EffortResult(id, segment.timeSeconds, segment.distanceMeters, "computed"))]

\* lines 150-155: the search and the realism floor
ComputeSegment(acc, id, config, segment) ==
  IF ~segment.found \/ TooFast(segment, config.meters) THEN acc
  ELSE Accept(acc, id, config, segment)

\* lines 147-178: one iteration of the loop over the runs
ComputeRun(acc, id, config, stream) ==
  IF ~stream.ok THEN acc
  ELSE ComputeSegment(acc, id, config, findFastestSegment(stream, config.meters))

\* lines 146-181: the loop; acc is the table and the efforts pushed so far
RECURSIVE ComputeRuns(_, _, _, _)
ComputeRuns(acc, runs, config, strms) ==
  IF runs = <<>> THEN acc
  ELSE ComputeRuns(ComputeRun(acc, Head(runs), config, strms[Head(runs)]),
                   Tail(runs), config, strms)

\* lines 183-184: sort and truncate
ComputedOf(acc, limit) ==
  [table |-> acc.table, efforts |-> Take(SortEfforts(acc.efforts), limit)]

\* computeEfforts: the table it leaves and the list it returns
computeEfforts(table, acts, strms, config, limit) ==
  ComputedOf(ComputeRuns([table |-> table, efforts |-> <<>>],
               OrderByStartDesc(acts, {id \in DOMAIN acts :
                   OutdoorRun(acts[id]) /\ acts[id].distance >= config.meters}),
               config, strms),
             limit)

\* Map.prototype.set: an existing key keeps its place, a new key goes last
RECURSIVE MapSet(_, _)
MapSet(byActivity, e) ==
  IF byActivity = <<>> THEN <<e>>
  ELSE IF Head(byActivity).activityId = e.activityId THEN <<e>> \o Tail(byActivity)
  ELSE <<Head(byActivity)>> \o MapSet(Tail(byActivity), e)

MapHas(byActivity, activityId) ==
  \E k \in 1..Len(byActivity) : byActivity[k].activityId = activityId

\* lines 194-196
RECURSIVE SetAll(_, _)
SetAll(byActivity, strava) ==
  IF strava = <<>> THEN byActivity
  ELSE SetAll(MapSet(byActivity, Head(strava)), Tail(strava))

\* lines 199-203
RECURSIVE SetAbsent(_, _)
SetAbsent(byActivity, computed) ==
  IF computed = <<>> THEN byActivity
  ELSE SetAbsent(IF MapHas(byActivity, Head(computed).activityId) THEN byActivity
                 ELSE Append(byActivity, Head(computed)),
                 Tail(computed))

mergeEffortsUnsorted(strava, computed, limit) ==
  Take(SetAbsent(SetAll(<<>>, strava), computed), limit)

mergeEfforts(strava, computed, limit) ==
  Take(SortEfforts(SetAbsent(SetAll(<<>>, strava), computed)), limit)

\* lines 246-256: 'best' mode for one distance
BestOf(stravaResults, config, limit) ==
  IF Len(stravaResults) > 0
  THEN [table |-> best_efforts,
        efforts |-> mergeEfforts(stravaResults,
                      getComputedFromDb(best_efforts, activities, config), limit)]
  ELSE computeEfforts(best_efforts, activities, streams, config, limit)

\* lines 239-257: results[dist] and the computed table after it
ResultsFor(config, limit, source) ==
  IF source = "strava"
  THEN [table |-> best_efforts,
        efforts |-> queryStravaEfforts(strava_best_efforts, activities, config, limit)]
  ELSE IF source = "computed"
  THEN computeEfforts(best_efforts, activities, streams, config, limit)
  ELSE BestOf(queryStravaEfforts(strava_best_efforts, activities, config, limit),
              config, limit)

(***************************************************************************)
(* Best-effort tool: a call of best_efforts for one distance               *)
(***************************************************************************)
\* streams have at most MaxSamples samples, ranked lists at most MaxList
\* entries, a call asks for at most MaxLimit results
MaxSamples == 3

MaxList == 2

MaxLimit == 3

Limits == 0..MaxLimit

\* the distance argument: each call handles the distances one by one
Distances == {"1k", "5k"}

Sources == {"best", "strava", "computed"}

\* cumulative distance (m) and time (s) samples of a stream
DistVals == {0, 40, 950, 1040, 1060}

TimeVals == {0, 100, 140, 200}

NonDecreasing(n, vals) == {s \in [1..n -> vals] : \A i \in 1..(n - 1) : s[i] <= s[i + 1]}

\* every stream of n samples: equal-length, non-decreasing arrays
StreamsOf(n) ==
  {[ok |-> TRUE, time |-> t, distance |-> d] :
     t \in NonDecreasing(n, TimeVals), d \in NonDecreasing(n, DistVals)}

Streams == UNION {StreamsOf(n) : n \in 0..MaxSamples}

\* what the provider answers to a stream request for an activity: nothing,
\* or a three-sample stream from zero (1060 m in 200 s) whose middle sample is
\* in the 1 km band
StreamAnswers(id) ==
  IF Kind(id) # "run"
  THEN {[ok |-> TRUE, time |-> <<0, 200, 200>>, distance |-> <<0, 1040, 1060>>]}
  ELSE {NoStream} \cup {s \in StreamsOf(3) :
          /\ s.distance[1] = 0 /\ s.time[1] = 0
          /\ s.distance[2] >= 950 /\ s.distance[2] <= 1040 /\ s.time[2] > 0
          /\ s.distance[3] = 1060 /\ s.time[3] = 200}

\* elapsed_time of a provider-native 1K record
StravaTimes == {195, 235}

\* the provider-native 1K records a store can hold: none or one per outdoor run
StravaTables ==
  {{[strava_effort_id |-> 10 * id + 1, activity_id |-> id, distance_name |-> "1K",
     distance_meters |-> 1000, elapsed_time |-> f[id]] : id \in {i \in DOMAIN f : f[i] # 0}} :
   f \in [{id \in Ids : Kind(id) = "run"} -> StravaTimes \cup {0}]}

\* the synchronisation is idle
SyncIdle ==
  /\ provider = Ids
  /\ tzOffset = 0
  /\ activity_laps = [id \in Ids |-> <<>>]
  /\ hrZonesFile = NoFile
  /\ pc = "idle"
  /\ sync = IdleSync
  /\ result = NoResult
  /\ reqLog = <<>>
  /\ pre = EmptyStore

\* a store after syncs: every activity of the provider, some provider-native
\* 1K records, no computed record yet
InitBE ==
  /\ SyncIdle
  /\ TokensIdle
  /\ activities = [id \in Ids |-> NewRow(Summary(id, 0))]
  /\ strava_best_efforts \in StravaTables
  /\ best_efforts = {}
  /\ streams \in {f \in [Ids -> UNION {StreamAnswers(id) : id \in Ids}] :
                    \A id \in Ids : f[id] \in StreamAnswers(id)}
  /\ input = NoCall
  /\ output = NoCall

\* bestEffortsTool for one distance (lines 224-257)
BestEfforts(distance, limit, source) ==
  /\ input' = [op |-> "best_efforts", distance |-> distance, limit |-> limit,
               source |-> source]
  /\ \E r \in {ResultsFor(DISTANCE_CONFIG(distance), limit, source)} :
       /\ best_efforts' = r.table
       /\ output' = [op |-> "best_efforts", efforts |-> r.efforts]
  /\ UNCHANGED <<activities, strava_best_efforts, streams>>
  /\ UNCHANGED <<syncVars, tokenVars>>

NextBE == \E distance \in Distances, limit \in Limits, source \in Sources :
            BestEfforts(distance, limit, source)

SpecBE == InitBE /\ [][NextBE]_vars

(***************************************************************************)
(* findFastestSegment applied to every bounded stream                      *)
(***************************************************************************)
SegmentTargets == {1000}

InitSeg ==
  /\ SyncIdle
  /\ TokensIdle
  /\ activities = <<>>
  /\ strava_best_efforts = {}
  /\ best_efforts = {}
  /\ streams = [id \in Ids |-> NoStream]
  /\ input \in {[op |-> "findFastestSegment", stream |-> s, targetDistance |-> t] :
                  s \in Streams, t \in SegmentTargets}
  /\ output = NoCall

FindFastestSegment ==
  /\ input.op = "findFastestSegment"
  /\ output = NoCall
  /\ output' = [op |-> "findFastestSegment",
                segment |-> findFastestSegment(input.stream, input.targetDistance)]
  /\ UNCHANGED <<activities, strava_best_efforts, best_efforts, streams, input>>
  /\ UNCHANGED <<syncVars, tokenVars>>

NextSeg == FindFastestSegment

SpecSeg == InitSeg /\ [][NextSeg]_vars

(***************************************************************************)
(* mergeEfforts applied to every bounded pair of lists                     *)
(***************************************************************************)
\* segmentTimeSeconds of the entries of a list
EffortTimes == {190, 200}

\* every list of at most MaxList entries of one source
EffortLists(source) ==
  UNION {[1..n -> {EffortResult(id, t, 1000, source) : id \in Ids, t \in EffortTimes}] :
           n \in 0..MaxList}

InitMerge ==
  /\ SyncIdle
  /\ TokensIdle
  /\ activities = <<>>
  /\ strava_best_efforts = {}
  /\ best_efforts = {}
  /\ streams = [id \in Ids |-> NoStream]
  /\ input \in {[op |-> "mergeEfforts", strava |-> a, computed |-> b, limit |-> l] :
                  a \in EffortLists("strava"), b \in EffortLists("computed"), l \in Limits}
  /\ output = NoCall

\* a call of mergeEfforts, the first or a repeated one; previous holds what
\* the call before it returned for the same inputs
MergeEfforts ==
  /\ input.op = "mergeEfforts"
  /\ output' = [op |-> "mergeEfforts",
                efforts |-> mergeEfforts(input.strava, input.computed, input.limit),
                previous |-> IF output.op = "mergeEfforts" THEN <<output.efforts>> ELSE <<>>]
  /\ UNCHANGED <<activities, strava_best_efforts, best_efforts, streams, input>>
  /\ UNCHANGED <<syncVars, tokenVars>>

NextMerge == MergeEfforts

SpecMerge == InitMerge /\ [][NextMerge]_vars

(***************************************************************************)
(* Access token (client.ts): concurrent calls of getAccessToken            *)
(***************************************************************************)
\* needsRefresh at the time now
needsRefresh(tokens, now) == now >= tokens.expires_at - TOKEN_EXPIRY_BUFFER_SECONDS

\* the refreshes whose saveTokens is rewriting the tokens file
Saving == {id \in Callers : refreshes[id].state = "saving"}

\* what loadTokens can return: the file's content; while writeFile rewrites
\* the file also the new content, or null for a partial file (JSON.parse throws)
LoadOutcomes ==
  {tokensFile} \cup {NoTokens : id \in Saving} \cup {refreshes[id].newTokens : id \in Saving}

\* the promise of the next invocation of refreshAccessToken
NextRefresh == 1 + Cardinality({id \in Callers : refreshes[id].state # "unused"})

StartsRefreshAlways(promise) == TRUE

\* line 121: if (!refreshPromise)
StartsRefresh(promise) == promise = 0

\* .finally(() => { refreshPromise = null }) once the refresh settles
Settle(id, outcome) ==
  /\ refreshes' = [refreshes EXCEPT ![id].state = "settled", ![id].outcome = outcome]
  /\ refreshPromise' = 0

OtherVars == <<syncVars, effortVars, activities, strava_best_efforts>>

\* getAccessToken is called and awaits loadTokens (line 114)
Call(c) ==
  /\ calls[c].pc = "idle"
  /\ calls' = [calls EXCEPT ![c].pc = "loading",
                            ![c].inBuffer = tokensFile.present /\ needsRefresh(tokensFile, clock)]
  /\ UNCHANGED <<tokensFile, clock, refreshPromise, refreshes>>
  /\ UNCHANGED OtherVars

\* the readFile of the call's loadTokens reads the tokens file (lines 35-42);
\* the call itself continues in a later turn of the event loop
LoadTokens(c, tokens) ==
  /\ calls[c].pc = "loading"
  /\ calls' = [calls EXCEPT ![c].pc = "loaded", ![c].loaded = tokens]
  /\ UNCHANGED <<tokensFile, clock, refreshPromise, refreshes>>
  /\ UNCHANGED OtherVars

\* await loadTokens() ends and the call runs on to its next await or to its
\* end (lines 114-129)
Loaded(c) ==
  /\ calls[c].pc = "loaded"
  /\ \E tokens \in {calls[c].loaded} :
       IF ~tokens.present
       THEN /\ calls' = [calls EXCEPT ![c].pc = "done", ![c].loaded = NoTokens,
                                      ![c].outcome = Rejected("NO_TOKENS")]
            /\ UNCHANGED <<refreshPromise, refreshes>>
       ELSE IF ~needsRefresh(tokens, clock)
       THEN /\ calls' = [calls EXCEPT ![c].pc = "done", ![c].loaded = NoTokens,
                                      ![c].outcome = Fulfilled(tokens)]
            /\ UNCHANGED <<refreshPromise, refreshes>>
       ELSE IF StartsRefresh(refreshPromise)
       THEN \E id \in {NextRefresh} :
              /\ refreshPromise' = id
              /\ refreshes' = [refreshes EXCEPT ![id].state = "loading"]
              /\ calls' = [calls EXCEPT ![c].pc = "awaiting", ![c].loaded = NoTokens,
                                        ![c].awaited = id]
       ELSE /\ calls' = [calls EXCEPT ![c].pc = "awaiting", ![c].loaded = NoTokens,
                                      ![c].found = refreshPromise,
                                      ![c].awaited = refreshPromise]
            /\ UNCHANGED <<refreshPromise, refreshes>>
  /\ UNCHANGED <<tokensFile, clock>>
  /\ UNCHANGED OtherVars

\* refreshAccessToken after its loadTokens: the credentials are checked and the
\* request to the token endpoint is sent (lines 60-81)
RefreshLoaded(id, config) ==
  /\ refreshes[id].state = "loading"
  /\ IF config = "ok"
     THEN /\ refreshes' = [refreshes EXCEPT ![id].state = "requesting"]
          /\ UNCHANGED refreshPromise
     ELSE Settle(id, Rejected(config))
  /\ UNCHANGED <<tokensFile, clock, calls>>
  /\ UNCHANGED OtherVars

\* the token endpoint answers (lines 83-104): an error is thrown, new tokens
\* are handed to saveTokens
RefreshResponse(id, response) ==
  /\ refreshes[id].state = "requesting"
  /\ IF response = "ok"
     THEN /\ refreshes' = [refreshes EXCEPT ![id].state = "saving",
                             ![id].newTokens = Tokens(id, clock + EXPIRES_IN)]
          /\ UNCHANGED refreshPromise
     ELSE Settle(id, Rejected(response))
  /\ UNCHANGED <<tokensFile, clock, calls>>
  /\ UNCHANGED OtherVars

\* saveTokens is done and refreshAccessToken returns the new tokens (lines 104-105)
RefreshSaved(id) ==
  /\ refreshes[id].state = "saving"
  /\ tokensFile' = refreshes[id].newTokens
  /\ Settle(id, Fulfilled(refreshes[id].newTokens))
  /\ UNCHANGED <<clock, calls>>
  /\ UNCHANGED OtherVars

\* await refreshPromise ends: the call returns the access token or throws
\* (lines 126-129)
Resume(c) ==
  /\ calls[c].pc = "awaiting"
  /\ refreshes[calls[c].awaited].state = "settled"
  /\ calls' = [calls EXCEPT ![c].pc = "done",
                            ![c].outcome = refreshes[calls[c].awaited].outcome]
  /\ UNCHANGED <<tokensFile, clock, refreshPromise, refreshes>>
  /\ UNCHANGED OtherVars

\* time passes
ClockTick ==
  /\ clock < MaxTicks * Tick
  /\ clock' = clock + Tick
  /\ UNCHANGED <<tokensFile, refreshPromise, refreshes, calls>>
  /\ UNCHANGED OtherVars

\* what refreshAccessToken finds in the environment and in the saved tokens
RefreshConfigs == {"ok", "Missing STRAVA_CLIENT_ID or STRAVA_CLIENT_SECRET", "NO_REFRESH_TOKEN"}

\* what the token endpoint answers
TokenResponses == {"ok", "TOKEN_EXPIRED", "Token refresh failed"}

\* the tokens file when the calls begin: missing, about to expire, or valid
InitToken ==
  /\ SyncIdle
  /\ activities = <<>>
  /\ strava_best_efforts = {}
  /\ best_efforts = {}
  /\ streams = [id \in Ids |-> NoStream]
  /\ input = NoCall
  /\ output = NoCall
  /\ tokensFile \in {NoTokens, Tokens(0, Tick), Tokens(0, EXPIRES_IN)}
  /\ clock = 0
  /\ refreshPromise = 0
  /\ refreshes = [id \in Callers |-> UnusedRefresh]
  /\ calls = [c \in Callers |-> IdleCall]

NextToken ==
  \/ \E c \in Callers : Call(c)
  \/ \E c \in Callers : \E tokens \in LoadOutcomes : LoadTokens(c, tokens)
  \/ \E c \in Callers : Loaded(c)
  \/ \E id \in Callers, config \in RefreshConfigs : RefreshLoaded(id, config)
  \/ \E id \in Callers, response \in TokenResponses : RefreshResponse(id, response)
  \/ \E id \in Callers : RefreshSaved(id)
  \/ \E c \in Callers : Resume(c)
  \/ ClockTick

SpecToken == InitToken /\ [][NextToken]_vars

(***************************************************************************)
(* Properties of the best-effort tool                                      *)
(***************************************************************************)
WindowDistance(stream, i, j) == stream.distance[j] - stream.distance[i]

WindowTime(stream, i, j) == stream.time[j] - stream.time[i]

InBand(d, target) ==
  d >= target - DISTANCE_TOLERANCE /\ d <= target + DISTANCE_TOLERANCE

\* the index pairs of a stream whose window distance lies in the band
BandPairs(stream, target) ==
  {p \in (1..Len(stream.distance)) \X (1..Len(stream.distance)) :
     p[1] <= p[2] /\ InBand(WindowDistance(stream, p[1], p[2]), target)}

\* C7: for a stream whose final cumulative distance reaches the target (and
\* that has a window in the band at all), findFastestSegment returns a window
\* whose distance lies in [target - 50, target + 50] and whose normalized time
\* (windowTime / windowDistance x target) is less than or equal to that of
\* every index pair whose window distance lies in the band.
C7_SegmentOptimal ==
  (/\ output.op = "findFastestSegment"
   /\ Len(input.stream.distance) > 0
   /\ input.targetDistance <= input.stream.distance[Len(input.stream.distance)]
   /\ BandPairs(input.stream, input.targetDistance) # {})
  => /\ output.segment.found
     /\ InBand(WindowDistance(input.stream, output.segment.startIndex + 1,
                              output.segment.endIndex + 1), input.targetDistance)
     /\ \A p \in BandPairs(input.stream, input.targetDistance) :
          WindowTime(input.stream, output.segment.startIndex + 1,
                     output.segment.endIndex + 1)
            * WindowDistance(input.stream, p[1], p[2])
          <= WindowTime(input.stream, p[1], p[2])
               * WindowDistance(input.stream, output.segment.startIndex + 1,
                                output.segment.endIndex + 1)

\* elapsed seconds over a target distance are no faster than the floor:
\* seconds / (meters / 1000) >= MIN_REALISTIC_PACE_PER_KM
AtOrAboveFloor(seconds, meters) ==
  seconds * 1000 >= MIN_REALISTIC_PACE_PER_KM(meters) * meters

\* C8: no row of the computed best-effort table and no computed entry of a
\* returned list has an implied pace (its elapsed time per kilometre of the
\* target distance) faster than the realism floor of that distance (150 s/km
\* for 1 km, 180 s/km for 5 km and longer).
C8_RealismFloor ==
  /\ \A r \in best_efforts : AtOrAboveFloor(r.elapsed_time, r.distance_meters)
  /\ output.op = "best_efforts" =>
       \A k \in 1..Len(output.efforts) :
         output.efforts[k].source = "computed" =>
           AtOrAboveFloor(output.efforts[k].segmentTimeSeconds,
                          DISTANCE_CONFIG(input.distance).meters)

\* C9: the list a call in merged ('best') mode returns for a distance holds no
\* computed-source entry for an activity that has a provider-native
\* best-effort record stored for that distance.
C9_ProviderNativePreferred ==
  (output.op = "best_efforts" /\ input.source = "best") =>
    \A k \in 1..Len(output.efforts) :
      output.efforts[k].source = "computed" =>
        ~\E r \in strava_best_efforts :
            /\ r.activity_id = output.efforts[k].activityId
            /\ r.distance_name = DISTANCE_CONFIG(input.distance).dbName

\* the activity identities of a list
ActivitiesOf(efforts) == {efforts[k].activityId : k \in 1..Len(efforts)}

\* the entry that stands for an activity: its provider-native entry (the last
\* one listed) when there is one, else its first computed entry
EntryOf(strava, computed, a) ==
  IF a \in ActivitiesOf(strava)
  THEN strava[CHOOSE k \in 1..Len(strava) :
                /\ strava[k].activityId = a
                /\ \A m \in (k + 1)..Len(strava) : strava[m].activityId # a]
  ELSE computed[CHOOSE k \in 1..Len(computed) :
                  /\ computed[k].activityId = a
                  /\ \A m \in 1..(k - 1) : computed[m].activityId # a]

MaxLaps == 5

MaxRepeats == 3

\* a lap of d metres run at p seconds per kilometre
PacedLap(d, p) == Lap(d, (d * p) \div 1000)

LapDistVals == {1000, 1120}

LapPaceVals == {200, 250, 350}

LapVals == {PacedLap(d, p) : d \in LapDistVals, p \in LapPaceVals}

\* every lap list of at most MaxLaps laps
LapLists == UNION {[1..n -> LapVals] : n \in 0..MaxLaps}

\* six laps that alternate between a fast and a slow pace, fast or slow first
AlternatingLaps ==
  {[i \in 1..6 |-> PacedLap(d[i], IF i % 2 = first THEN fast ELSE 350)] :
     d \in [1..6 -> {800, 1000, 1120}], first \in {0, 1}, fast \in {250, 300}}

\* 2000 m warm-up, k work laps of 1000 m separated by single 300 m jog laps,
\* 1500 m cool-down; q picks each lap's pace among two of its kind
RepeatLaps(k) ==
  {[i \in 1..(2 * k + 1) |->
      IF i = 1 THEN PacedLap(2000, 350 + 50 * q[i])
      ELSE IF i = 2 * k + 1 THEN PacedLap(1500, 350 + 50 * q[i])
      ELSE IF i % 2 = 0 THEN PacedLap(1000, 200 + 50 * q[i])
      ELSE PacedLap(300, 350 + 50 * q[i])] :
     q \in [1..(2 * k + 1) -> {0, 1}]}

\* the activity summary handed to classifyRun, with and without the race marker
ClassifyActivities ==
  {[id |-> 1, distance |-> 6000, moving_time |-> 2160, average_speed |-> 3,
    average_heartrate |-> 160, workout_type |-> w] : w \in {0, 1}}

ConfirmedZones == [source |-> "manual", lt1 |-> 154, lt2 |-> 167, max_hr |-> 188,
                   confirmed |-> TRUE]

EasyPaceRefs == {Rat(360, 1000), Rat(300, 1000)}

\* activity summaries for the pace/HR decision: a short and a long distance,
\* paces on each side of both references, no HR data or an average HR in each
\* of the five zones of ConfirmedZones
SummaryDistances == {6000, 15000}

SummaryPaces == {250, 300, 350, 400}

SummaryHeartrates == {0, 130, 150, 160, 170, 185}

SummaryActivities ==
  {[id |-> 1, distance |-> d, moving_time |-> (d * p) \div 1000, average_speed |-> 3,
    average_heartrate |-> hr, workout_type |-> 0] :
     d \in SummaryDistances, p \in SummaryPaces, hr \in SummaryHeartrates}

\* manual laps of a session: each lap an 800 m work lap at 200 s/km or a
\* 400 m rest lap at 350 s/km
MaxSessionLaps == 8

SessionLaps == [1..MaxSessionLaps -> {PacedLap(800, 200), PacedLap(400, 350)}]

\* no laps, or three kilometre auto laps
SummaryLaps == {<<>>, [i \in 1..3 |-> PacedLap(1000, 350)]}

InitClassify ==
  /\ SyncIdle
  /\ TokensIdle
  /\ activities = <<>>
  /\ strava_best_efforts = {}
  /\ best_efforts = {}
  /\ streams = [id \in Ids |-> NoStream]
  /\ input \in {[op |-> "classifyRun", activity |-> a, laps |-> l,
                 hrZones |-> ConfirmedZones, easyPaceRef |-> e] :
                  a \in ClassifyActivities,
                  l \in LapLists \cup AlternatingLaps
                         \cup UNION {RepeatLaps(k) : k \in 2..MaxRepeats},
                  e \in EasyPaceRefs}
             \cup {[op |-> "classifyRun", activity |-> a, laps |-> l,
                    hrZones |-> ConfirmedZones, easyPaceRef |-> e] :
                     a \in SummaryActivities, l \in SummaryLaps, e \in EasyPaceRefs}
             \cup {[op |-> "classifyRun", activity |-> a, laps |-> l,
                    hrZones |-> ConfirmedZones, easyPaceRef |-> e] :
                     a \in ClassifyActivities, l \in SessionLaps, e \in EasyPaceRefs}
  /\ output = NoCall

ClassifyRun ==
  /\ input.op = "classifyRun"
  /\ output = NoCall
  /\ output' = [op |-> "classifyRun",
                result |-> classifyRun(input.activity, input.laps, input.hrZones,
                                       input.easyPaceRef)]
  /\ UNCHANGED <<activities, strava_best_efforts, best_efforts, streams, input>>
  /\ UNCHANGED <<syncVars, tokenVars>>

NextClassify == ClassifyRun

SpecClassify == InitClassify /\ [][NextClassify]_vars

(***************************************************************************)
(* Properties of the run classifier                                        *)
(***************************************************************************)
\* what classifyRun returns for the same inputs without the race marker
WithoutRaceMarker ==
  classifyRun([input.activity EXCEPT !.workout_type = 0], input.laps, input.hrZones,
              input.easyPaceRef)

\* C11: for an activity carrying the provider race marker (workout_type = 1),
\* classifyRun returns (race, null, high) whatever the laps, the HR zones and
\* the easy-pace reference.
C11_RaceOverride ==
  (output.op = "classifyRun" /\ input.activity.workout_type = 1)
    => output.result = Result("race", NoDetail, "high")

\* a race-marked activity whose laps would otherwise classify as intervals
C11_Witness ==
  /\ output.op = "classifyRun"
  /\ input.activity.workout_type = 1
  /\ WithoutRaceMarker.run_type = "intervals"
  /\ output.result.run_type = "race"

\* the pace/HR fallback result for the activity summary of the call
FallbackResult ==
  classifyByPaceAndHr(input.activity, input.hrZones, input.easyPaceRef)

\* C12: for a non-race activity whose inner laps (all but the first and the
\* last) are all within 120 m of 1000 m, the boundary included, classifyRun
\* returns the pace/HR fallback result of the activity summary: never
\* intervals, fartlek or progression, and always with null detail.
C12_AutoLapsSkipStructure ==
  (/\ output.op = "classifyRun"
   /\ input.activity.workout_type # 1
   /\ \A i \in 2..(Len(input.laps) - 1) : Abs(input.laps[i].distance - 1000) <= 120)
  => /\ output.result = FallbackResult
     /\ output.result.run_type \notin {"intervals", "fartlek", "progression"}
     /\ output.result.run_type_detail = NoDetail

\* the laps of a six-lap list that sit at the given parity
LapsAt(parity) == {i \in 1..6 : i % 2 = parity}

\* six laps of about 1 km each that alternate fast and slow: the laps at the
\* parity are the fast ones, each at most 85% of the pace of every other lap
SixAlternating(parity) ==
  /\ Len(input.laps) = 6
  /\ \A i \in 1..6 : Abs(input.laps[i].distance - 1000) <= 200
  /\ \A i \in LapsAt(parity) : \A j \in (1..6) \ LapsAt(parity) :
       /\ input.laps[i].distance > 0 /\ input.laps[j].distance > 0
       /\ 100 * input.laps[i].moving_time * input.laps[j].distance
            <= 85 * input.laps[j].moving_time * input.laps[i].distance

\* sum and sum of squares of the distances of the laps at the parity
FastSum(parity) == SumOver(LapsAt(parity), LapDistances(input.laps))

FastSquares(parity) ==
  SumOver(LapsAt(parity), [i \in 1..6 |-> input.laps[i].distance * input.laps[i].distance])

\* coefficient of variation of the fast laps' distances below 0.15:
\* sqrt(variance) / mean < 0.15 with variance = s2 / 3 - (s1 / 3)^2
FastCvBelow(parity) ==
  400 * (3 * FastSquares(parity) - FastSum(parity) * FastSum(parity))
    < 9 * FastSum(parity) * FastSum(parity)

\* the inner laps are neither all strictly within 120 m of 1000 m nor all
\* strictly within 150 m of 1609 m
NotAutoLaps ==
  /\ Len(input.laps) > 2
  /\ \E i \in 2..(Len(input.laps) - 1) : Abs(input.laps[i].distance - 1000) >= 120
  /\ \E i \in 2..(Len(input.laps) - 1) : Abs(input.laps[i].distance - 1609) >= 150

FasterThanBefore(i) ==
  /\ input.laps[i].distance > 0 /\ input.laps[i - 1].distance > 0
  /\ input.laps[i].moving_time * input.laps[i - 1].distance
       < input.laps[i - 1].moving_time * input.laps[i].distance

\* five laps whose inner laps are each faster than the one before
FiveAccelerating ==
  /\ Len(input.laps) = 5
  /\ FasterThanBefore(3)
  /\ FasterThanBefore(4)

WarmupRepeatsCooldown(k) ==
  /\ Len(input.laps) = 2 * k + 1
  /\ input.laps[1].distance = 2000
  /\ input.laps[2 * k + 1].distance = 1500
  /\ \A i \in 2..(2 * k) : input.laps[i].distance = IF i % 2 = 0 THEN 1000 ELSE 300
  /\ \A i \in {2 * m : m \in 1..k} : \A j \in (1..(2 * k + 1)) \ {2 * m : m \in 1..k} :
       100 * input.laps[i].moving_time * input.laps[j].distance
         <= 92 * input.laps[j].moving_time * input.laps[i].distance

\* C15: for every k >= 2, a non-race activity whose laps are a warm-up, k work
\* laps of 1000 m separated by jog laps and a cool-down classifies, with
\* confirmed HR zones, as (intervals, "kx1km", high), whatever the order of
\* paces among the work laps.
C15_WarmupRepeatsCooldown ==
  \A k \in 2..(MaxRepeats + 1) :
    (/\ output.op = "classifyRun"
     /\ input.activity.workout_type # 1
     /\ input.hrZones.confirmed
     /\ WarmupRepeatsCooldown(k))
    => output.result = Result("intervals", Detail("intervals", k, 0, 0, "1km"), "high")

\* three repeats, the middle one the slowest of the work laps
C15_Witness ==
  /\ output.op = "classifyRun"
  /\ input.activity.workout_type # 1
  /\ WarmupRepeatsCooldown(3)
  /\ input.laps[2].moving_time = 200
  /\ input.laps[4].moving_time = 250
  /\ input.laps[6].moving_time = 200
  /\ output.result = Result("intervals", Detail("intervals", 3, 0, 0, "1km"), "high")

\* classifyRun hands the activity summary to the pace/HR decision: no race
\* marker, and no laps or auto laps
ReachesFallback ==
  /\ output.op = "classifyRun"
  /\ input.activity.workout_type # 1
  /\ input.laps = <<>> \/ detectAutoLaps(input.laps)

\* the pace of the call's activity against its easy reference
PaceSlower ==
  100 * input.activity.moving_time * input.easyPaceRef[2]
    > 105 * input.easyPaceRef[1] * input.activity.distance

PaceFaster ==
  100 * input.activity.moving_time * input.easyPaceRef[2]
    < 95 * input.easyPaceRef[1] * input.activity.distance

\* the run type the decision table gives the call's activity; zone 0 stands
\* for no HR data
TableType(zone, far) ==
  IF PaceSlower THEN (IF zone \in {1, 2} THEN "recovery" ELSE "easy")
  ELSE IF ~PaceFaster THEN (IF far THEN "long_run" ELSE "easy")
  ELSE IF zone >= 4 THEN "threshold"
  ELSE IF zone = 3 THEN "tempo"
  ELSE IF zone = 0 /\ far THEN "long_run"
  ELSE "unknown"

\* C21 (as claimed): whenever classifyRun reaches the pace/HR fallback its
\* result is the one of the decision table: slower than 105% of the reference
\* gives recovery for HR zone <= 2, else easy; within 5% gives long_run from
\* 15 km, else easy; faster gives threshold for zone >= 4, tempo for zone 3,
\* long_run (low) only without HR data and from 15 km, unknown (low) in every
\* other case; the detail is always null
C21_FallbackTable ==
  ReachesFallback =>
    /\ output.result.run_type =
         TableType(ActHrZone(input.activity, input.hrZones),
                   input.activity.distance >= 15000)
    /\ output.result.run_type_detail = NoDetail
    /\ (PaceFaster /\ output.result.run_type \in {"long_run", "unknown"})
         => output.result.confidence = "low"

\* classifyRun returned tempo with a detail string: the result of
\* detectTempoBlock
TempoReturned ==
  /\ output.op = "classifyRun"
  /\ output.result.run_type = "tempo"
  /\ output.result.run_type_detail # NoDetail

\* lap i of the call is faster than 92% of the easy-pace reference
FastLap(i) ==
  RatLT(LapPace(input.laps[i]),
        Rat(input.easyPaceRef[1] * 92, input.easyPaceRef[2] * 100))

\* laps a..b are a contiguous run of fast laps
FastRun(a, b) == a <= b /\ \A i \in a..b : FastLap(i)

\* C22 (as claimed): whenever structured analysis returns tempo with a detail
\* string, the block of laps the detail is computed over is the longest
\* contiguous run of laps each faster than 92% of the easy-pace reference, has
\* at least 2 laps, holds no lap at or slower than that threshold and does
\* not cover all laps
C22_TempoBlockLongestFastRun ==
  TempoReturned =>
    \E blk \in {TempoBlock(input.laps, input.easyPaceRef)} :
      /\ output.result = TempoOfBlock(blk, input.laps)
      /\ FastRun(blk[1], blk[2])
      /\ blk[2] - blk[1] + 1 >= 2
      /\ ~(blk[1] = 1 /\ blk[2] = Len(input.laps))
      /\ \A a \in 1..Len(input.laps), b \in 1..Len(input.laps) :
           FastRun(a, b) => b - a <= blk[2] - blk[1]

\* the work laps of the call: pace <= 92% of the median lap pace
CallWorkLaps == WorkLaps(input.laps)

\* the number of places where a work lap follows a rest lap or a rest lap a
\* work lap
Transitions ==
  Cardinality({i \in 2..Len(input.laps) : (i \in CallWorkLaps) # ((i - 1) \in CallWorkLaps)})

\* C23 (as claimed): whenever classifyRun returns intervals or fartlek, every
\* work lap is next to a rest lap on at least one side, and the number of
\* work/rest transitions along the laps is at least the number of work laps
C23_WorkLapsAlternate ==
  (output.op = "classifyRun" /\ output.result.run_type \in {"intervals", "fartlek"})
  => /\ \A i \in CallWorkLaps :
          \/ i > 1 /\ (i - 1) \notin CallWorkLaps
          \/ i < Len(input.laps) /\ (i + 1) \notin CallWorkLaps
     /\ Transitions >= Cardinality(CallWorkLaps)

\* the standard repeat distances, the tolerance band of each and its label
StandardDistances == {1000, 800, 400, 1609, 2000, 1200}

StandardTolerance(d) ==
  IF d = 1000 \/ d = 1200 THEN 150
  ELSE IF d = 800 THEN 100
  ELSE IF d = 400 THEN 80
  ELSE 200

StandardLabel(d) ==
  IF d = 1000 THEN "1km"
  ELSE IF d = 800 THEN "800m"
  ELSE IF d = 400 THEN "400m"
  ELSE IF d = 1609 THEN "1mi"
  ELSE IF d = 2000 THEN "2km"
  ELSE "1200m"

\* the interval detail the claim gives count work laps whose distances sum to
\* total: is it the detail `given`?
NearestStandardDetail(count, total, given) ==
  IF \E d \in StandardDistances : Abs(total - d * count) < StandardTolerance(d) * count
  THEN \E d \in StandardDistances :
         /\ \A e \in StandardDistances : Abs(total - d * count) <= Abs(total - e * count)
         /\ given = Detail("intervals", count, 0, 0, StandardLabel(d))
  ELSE given = Detail("intervals", count, RoundDiv(total, 100 * count) * 100, 0, "m")

\* C24 (as claimed): for every intervals result, if the average work-lap
\* distance is within the tolerance band of at least one standard distance
\* (1000, 800, 400, 1609, 2000, 1200 m) the detail is the work-lap count
\* followed by the standard distance nearest to that average; otherwise it is
\* the count followed by the average rounded to the nearest 100 m
C24_IntervalDetailNearestStandard ==
  (output.op = "classifyRun" /\ output.result.run_type = "intervals")
  => NearestStandardDetail(Cardinality(CallWorkLaps),
                           SumOver(CallWorkLaps, LapDistances(input.laps)),
                           output.result.run_type_detail)

(***************************************************************************)
(* Properties of the access token refresh                                  *)
(***************************************************************************)
\* the refreshes that have begun and have not settled
InFlight == {id \in Callers : refreshes[id].state \in {"loading", "requesting", "saving"}}

\* C16: token refresh is single-flight: under every interleaving of
\* concurrent getAccessToken calls at most one refresh is in flight (so at
\* most one request to the token endpoint), and every call that found a
\* refresh in flight awaits that refresh and returns the access token it
\* produced, or throws its error.
C16_SingleFlight ==
  /\ Cardinality(InFlight) <= 1
  /\ Cardinality({id \in Callers : refreshes[id].state = "requesting"}) <= 1
  /\ \A c \in Callers :
       calls[c].found # 0 =>
         /\ calls[c].awaited = calls[c].found
         /\ calls[c].pc = "done" => calls[c].outcome = refreshes[calls[c].found].outcome

\* two calls are done with the token of one refresh: one began it, the other
\* found it in flight
C16_Witness ==
  \E c \in Callers, d \in Callers :
    /\ calls[c].pc = "done" /\ calls[c].found = 0 /\ calls[c].awaited # 0
    /\ calls[d].pc = "done" /\ calls[d].found = calls[c].awaited
    /\ calls[d].outcome.status = "token"
    /\ calls[d].outcome.access_token = calls[c].awaited
    /\ calls[c].outcome = calls[d].outcome

\* the refreshes that sent their request to the token endpoint (line 73)
TokenRequests ==
  {id \in Callers :
     \/ refreshes[id].state \in {"requesting", "saving"}
     \/ refreshes[id].state = "settled" /\ refreshes[id].outcome.error \notin RefreshConfigs}

\* the calls made while the stored tokens were inside the expiry buffer
CallsInBuffer == {c \in Callers : calls[c].inBuffer}

\* the first refresh succeeded and the tokens it stored are outside the buffer
RefreshedOutsideBuffer ==
  /\ refreshes[1].state = "settled"
  /\ refreshes[1].outcome.status = "token"
  /\ tokensFile.present
  /\ ~needsRefresh(refreshes[1].newTokens, clock)

\* C30 (as claimed): if two or more getAccessToken calls are started while
\* the stored token is inside the expiry buffer and the refresh succeeds and
\* stores a token outside the buffer, then under every interleaving of the
\* callers' reads of the tokens file with the refresh's completion exactly one
\* request is sent to the token endpoint
C30_OneRefreshPerExpiry ==
  (Cardinality(CallsInBuffer) >= 2 /\ RefreshedOutsideBuffer)
  => Cardinality(TokenRequests) = 1

(***************************************************************************)
(* Properties of the fetch window and of the detail loops                  *)
(***************************************************************************)
\* the stored activities whose start time was the cursor when the sync began
BoundaryIds ==
  {id \in DOMAIN pre.activities :
     pre.activities[id].start_date_local = getLatestActivityDate(pre.activities)}

\* C17 (as claimed): an incremental sync that found a cursor asks the provider
\* only for activities strictly newer than the cursor, to the second: its
\* `after` is not before the cursor, and the stored activity whose start time
\* equals the cursor is not listed, so not upserted again
C17_StrictlyNewerThanCursor ==
  sync.isIncremental =>
    /\ sync.after >= getLatestActivityDate(pre.activities)
    /\ ListedIds \cap BoundaryIds = {}

\* C19 (as claimed): at the end of every sync every stored activity with a
\* run_type has detail_fetched = 1; a new run whose detail request was
\* rate-limited or failed in this sync is not classified in this sync
C19_ClassifiedOnlyWithDetail ==
  pc = "done" =>
    \A id \in DOMAIN activities :
      activities[id].run_type # NULL => activities[id].detail_fetched = 1

\* C20 (as claimed): in every sync, incremental or full, the first detail
\* loop requests detail only for outdoor runs (not trainer) whose identity
\* was not in the store when the sync started
C20_NewRunDetailOnlyUnknown ==
  \A k \in 1..Len(reqLog) :
    reqLog[k].loop = "new" =>
      /\ IsOutdoorRun(Summary(reqLog[k].id, tzOffset))
      /\ reqLog[k].id \notin DOMAIN pre.activities

\* every request a step adds to the log of the sync is answered with success
RequestsSucceed ==
  \A k \in DOMAIN reqLog' : k > Len(reqLog) => reqLog'[k].resp = "ok"

\* every stored outdoor run has its detail
AllDetailed ==
  \A id \in DOMAIN activities :
    OutdoorRun(activities[id]) => activities[id].detail_fetched = 1

\* C25 (as claimed): if from some sync onward no request is rate-limited or
\* fails, then after finitely many further syncs every stored outdoor run has
\* detail_fetched = 1 at the end of the sync, and at the end of every later
\* sync
C25_BackfillCompletes ==
  <>[][RequestsSucceed]_vars => <>[](pc = "done" => AllDetailed)

\* no stored outdoor run has its detail and no run_type
NoBacklog ==
  \A id \in DOMAIN activities :
    ~(/\ OutdoorRun(activities[id])
      /\ activities[id].detail_fetched = 1
      /\ activities[id].run_type = NULL)

\* a sync has run to its end without throwing
SyncEndedOk == pc = "done" /\ result.status = "ok"

DetailRequest(id, resp) ==
  /\ pc \in {"newRuns", "backfill"}
  /\ reqLog' = Append(reqLog, [loop |-> IF pc = "newRuns" THEN "new" ELSE "backfill",
                                id |-> id, resp |-> resp])

\* the step sets the detail_fetched flag of activity id
FlagSet(id) ==
  /\ id \in DOMAIN activities
  /\ activities[id].detail_fetched = 0
  /\ activities'[id].detail_fetched = 1

\* after the step the store holds every lap and every best effort with a
\* recognised distance name of the provider's detail response for id
DetailStored(id) ==
  /\ \A k \in 1..Len(ProviderLaps(id)) :
       /\ k <= Len(activity_laps'[id])
       /\ activity_laps'[id][k] = ProviderLaps(id)[k]
  /\ \A k \in 1..Len(ProviderEfforts(id)) :
       ProviderEfforts(id)[k].name \in STRAVA_DISTANCE_NAMES =>
         \E row \in strava_best_efforts' :
           /\ row.strava_effort_id = ProviderEfforts(id)[k].id
           /\ row.activity_id = id
           /\ row.elapsed_time = ProviderEfforts(id)[k].elapsed_time

C28_NoRepeatedDetailWork ==
  [][sync.isIncremental =>
       \A id \in DOMAIN activities :
         activities[id].detail_fetched = 1 =>
           /\ activities'[id].detail_fetched = 1
           /\ \A resp \in DetailResponses : ~DetailRequest(id, resp)]_vars

\* the list requests of the running sync succeeded
Listed ==
  \/ pc \in {"newRuns", "backfill", "classify"}
  \/ pc = "done" /\ result.status = "ok"

\* the provider activities that started after every activity stored when the
\* sync began
StartedLater ==
  {id \in provider :
     \A s \in DOMAIN pre.activities : StartUtc(id) > pre.activities[s].start_date}

\* C29 (as claimed): for every UTC offset of the athlete, every provider
\* activity that started after the latest stored activity is inside the
\* window of the next incremental sync (its `after` is earlier than the
\* activity's start instant) and is stored once the list requests succeeded
C29_IncrementalMissesNothing ==
  (sync.isIncremental /\ Listed) =>
    \A id \in StartedLater :
      /\ sync.after < StartUtc(id)
      /\ id \in DOMAIN activities

(***************************************************************************)
(* Properties of findFastestSegment on short streams                       *)
(***************************************************************************)
\* the stream is empty or ends before the target distance
EndsBefore(stream, targetDistance) ==
  \/ Len(stream.distance) = 0
  \/ stream.distance[Len(stream.distance)] < targetDistance

\* C18: for every stream whose last cumulative distance is less than the
\* target distance, and for the empty stream, findFastestSegment returns null:
\* no window and no time
C18_ShortStreamNotFound ==
  (/\ output.op = "findFastestSegment"
   /\ EndsBefore(input.stream, input.targetDistance))
  => output.segment = NoSegment

\* null was returned for a stream that ends inside the tolerance band below
\* the target, although it holds a window of that length
C18_Witness ==
  /\ output.op = "findFastestSegment"
  /\ output.segment = NoSegment
  /\ Len(input.stream.distance) = MaxSamples
  /\ input.stream.distance[1] = 0
  /\ input.stream.distance[MaxSamples] < input.targetDistance
  /\ input.stream.distance[MaxSamples] >= input.targetDistance - DISTANCE_TOLERANCE
  /\ input.stream.time[MaxSamples] > input.stream.time[1]

====
